---- MODULE Spec2Model ----
(***************************************************************************)
(* A model of TableIdentifier-v2.1: the weight ledger and table ranker     *)
(* (analysis/table_identifier.py), the synonym index                       *)
(* (analysis/name_match_manager.py), the pattern index                     *)
(* (config/patterns.py), the feedback store (feedback/feedback_manager.py) *)
(* and the confirmation flow that ties them together (main.py).            *)
(*                                                                         *)
(* Python floats are modelled as exact rationals <<n, d>> in lowest terms  *)
(* with d > 0.  Strings are TLA+ strings; substring tests, lower-casing    *)
(* and tokenisation are computed character by character.                   *)
(***************************************************************************)
EXTENDS Integers, Sequences, FiniteSets, TLC

(***************************************************************************)
(* Rational arithmetic (the float arithmetic of the source).               *)
(***************************************************************************)
RECURSIVE GCD(_, _)
GCD(a, b) == IF b = 0 THEN a ELSE GCD(b, a % b)

LCM(a, b) == (a \div GCD(a, b)) * b

Norm(n, d) ==
    LET g == GCD(IF n < 0 THEN -n ELSE n, d)
    IN  IF g = 0 THEN <<0, 1>> ELSE <<n \div g, d \div g>>

RAdd(x, y) ==
    LET l == LCM(x[2], y[2])
    IN  Norm(x[1] * (l \div x[2]) + y[1] * (l \div y[2]), l)

RMul(x, y) ==
    LET a == Norm(x[1], y[2])
        b == Norm(y[1], x[2])
    IN  Norm(a[1] * b[1], a[2] * b[2])

RLe(x, y) ==
    IF x[2] = y[2] THEN x[1] <= y[1]
    ELSE LET l == LCM(x[2], y[2])
         IN  x[1] * (l \div x[2]) <= y[1] * (l \div y[2])

RLt(x, y) == RLe(x, y) /\ x # y

RMax(x, y) == IF RLe(x, y) THEN y ELSE x

RMin(x, y) == IF RLe(x, y) THEN x ELSE y

RDivInt(x, k) == Norm(x[1], x[2] * k)

Zero == <<0, 1>>
One == <<1, 1>>

RECURSIVE RSum(_)
\* sum(list) for a list of rationals
RSum(list) ==
    IF list = <<>> THEN Zero ELSE RAdd(Head(list), RSum(Tail(list)))

RECURSIVE RMaxOf(_, _, _)
\* max([f[k] for k in keys] + [floor])
RMaxOf(keys, f, floor) ==
    IF keys = <<>> THEN floor ELSE RMax(f[Head(keys)], RMaxOf(Tail(keys), f, floor))

(***************************************************************************)
(* Sequence helpers (Python list operations).                              *)
(***************************************************************************)
Range(s) == {s[i] : i \in 1..Len(s)}

Count(s, x) == Cardinality({i \in 1..Len(s) : s[i] = x})

NoDup(s) == \A i, j \in 1..Len(s) : s[i] = s[j] => i = j

(***************************************************************************)
(* String helpers (Python str operations), computed character by character.*)
(***************************************************************************)
CharAt(s, i) == SubSeq(s, i, i)

UpperCase == "ABCDEFGHIJKLMNOPQRSTUVWXYZ"
LowerCase == "abcdefghijklmnopqrstuvwxyz"

\* upper-case letter -> lower-case letter
ToLower ==
    [c \in {CharAt(UpperCase, i) : i \in 1..Len(UpperCase)} |->
        CharAt(LowerCase, CHOOSE i \in 1..Len(UpperCase) : CharAt(UpperCase, i) = c)]

Letters == DOMAIN ToLower \cup {CharAt(LowerCase, i) : i \in 1..Len(LowerCase)}

\* lower-case letter -> its place in the alphabet
LetterCode ==
    [c \in {CharAt(LowerCase, i) : i \in 1..Len(LowerCase)} |->
        CHOOSE i \in 1..Len(LowerCase) : CharAt(LowerCase, i) = c]

LowerChar(c) == IF c \in DOMAIN ToLower THEN ToLower[c] ELSE c

RECURSIVE MapChars(_, _, _)
\* s with every character c replaced by to when c = from, lower-cased when from = ""
MapChars(s, from, to) ==
    IF s = "" THEN ""
    ELSE LET c == CharAt(s, 1)
             d == IF from = "" THEN LowerChar(c) ELSE IF c = from THEN to ELSE c
         IN  d \o MapChars(SubSeq(s, 2, Len(s)), from, to)

\* s.lower()
Lower(s) == MapChars(s, "", "")

\* s.replace('_', ' ')
Unscore(s) == MapChars(s, "_", " ")

\* needle in hay
Contains(hay, needle) ==
    \E i \in 1..(Len(hay) - Len(needle) + 1) : SubSeq(hay, i, i + Len(needle) - 1) = needle

\* s.isalpha() for the ASCII letters
IsAlpha(s) ==
    /\ s # ""
    /\ \A i \in 1..Len(s) : CharAt(s, i) \in Letters

RECURSIVE SplitOn(_, _, _)
\* s.split(sep) for a one-character sep; cur is the piece being read
SplitOn(s, sep, cur) ==
    IF s = "" THEN <<cur>>
    ELSE IF CharAt(s, 1) = sep
         THEN <<cur>> \o SplitOn(SubSeq(s, 2, Len(s)), sep, "")
         ELSE SplitOn(SubSeq(s, 2, Len(s)), sep, cur \o CharAt(s, 1))

\* the non-empty pieces of s between blanks
Words(s) == SelectSeq(SplitOn(s, " ", ""), LAMBDA w : w # "")

RECURSIVE JoinWith(_, _)
\* sep.join(list)
JoinWith(list, sep) ==
    IF list = <<>> THEN ""
    ELSE IF Len(list) = 1 THEN list[1]
    ELSE list[1] \o sep \o JoinWith(Tail(list), sep)

(***************************************************************************)
(* The schema catalog bound to the components (schema_dict).  It is an     *)
(* input of the program; this one is a cut-down BikeStores catalog.        *)
(***************************************************************************)
Schemas == <<"sales", "production">>

SchemaTables ==
    [s \in Range(Schemas) |->
        IF s = "sales"
        THEN <<"customers", "orders", "order_items", "stores", "staffs">>
        ELSE <<"products", "stocks">>]

FullName(schema, table) == schema \o "." \o table

RECURSIVE Flatten(_)
Flatten(ss) == IF ss = <<>> THEN <<>> ELSE Head(ss) \o Flatten(Tail(ss))

\* get_all_tables(): every catalog table as "schema.table", in catalog order
get_all_tables ==
    Flatten([i \in 1..Len(Schemas) |->
        [j \in 1..Len(SchemaTables[Schemas[i]]) |->
            FullName(Schemas[i], SchemaTables[Schemas[i]][j])]])

CatalogTables == Range(get_all_tables)

\* schema_dict['columns'][schema][table]: column name -> type, in catalog order
Columns ==
    [t \in CatalogTables |->
        CASE t = "sales.customers" ->
               <<[name |-> "first_name", type |-> "varchar"],
                 [name |-> "last_name", type |-> "varchar"],
                 [name |-> "city", type |-> "varchar"]>>
          [] t = "sales.orders" ->
               <<[name |-> "order_id", type |-> "int"],
                 [name |-> "order_date", type |-> "date"],
                 [name |-> "customer_id", type |-> "int"]>>
          [] t = "sales.order_items" ->
               <<[name |-> "order_id", type |-> "int"],
                 [name |-> "product_id", type |-> "int"],
                 [name |-> "quantity", type |-> "int"]>>
          [] t = "sales.stores" ->
               <<[name |-> "store_name", type |-> "varchar"],
                 [name |-> "state", type |-> "varchar"]>>
          [] t = "sales.staffs" ->
               <<[name |-> "first_name", type |-> "varchar"],
                 [name |-> "store_id", type |-> "int"]>>
          [] t = "production.products" ->
               <<[name |-> "product_name", type |-> "varchar"],
                 [name |-> "list_price", type |-> "decimal"]>>
          [] OTHER ->
               <<[name |-> "product_id", type |-> "int"],
                 [name |-> "quantity", type |-> "int"]>>]

\* schema_dict['columns'].get(schema, {}).get(table_name, {}) for "schema.table_name";
\* gaps are the catalog tables that have no entry in schema_dict['columns']
RelevantColumns(t, gaps) == IF t \in CatalogTables \ gaps THEN Columns[t] ELSE <<>>

ColumnNames(cols) == {cols[i].name : i \in 1..Len(cols)}

\* schema_dict['foreign_keys'][schema][table]: the referenced_table of each key
ForeignKeys ==
    [t \in CatalogTables |->
        CASE t = "sales.orders" -> <<"sales.customers">>
          [] t = "sales.order_items" -> <<"sales.orders", "production.products">>
          [] t = "sales.staffs" -> <<"sales.stores">>
          [] t = "production.stocks" -> <<"production.products">>
          [] OTHER -> <<>>]

(***************************************************************************)
(* The NLP provider (spaCy en_core_web_md), an external collaborator: a    *)
(* fixed stub over the vocabulary of the queries below.                    *)
(***************************************************************************)
StopWords == {"show", "the", "of", "in", "for", "all", "me"}

\* token.lemma_
Lemma(w) ==
    CASE w = "customers" -> "customer"
      [] w = "orders" -> "order"
      [] w = "stores" -> "store"
      [] w = "names" -> "name"
      [] OTHER -> w

\* the tokens of nlp(text)
Tokens(text) == Words(text)

\* [token.lemma_ for token in doc if not token.is_stop and token.is_alpha]
QueryTerms(text) ==
    LET toks == SelectSeq(Tokens(text), LAMBDA w : w \notin StopWords /\ IsAlpha(w))
    IN  [i \in 1..Len(toks) |-> Lemma(toks[i])]

\* {token.text for token in doc if not token.is_stop and token.is_alpha}
QueryTokens(text) == {w \in Range(Tokens(text)) : w \notin StopWords /\ IsAlpha(w)}

\* {ent.label_ for ent in doc.ents}
EntityLabels(text) ==
    {l \in {"DATE", "GPE"} :
        \E w \in Range(Tokens(text)) :
            \/ l = "GPE" /\ w \in {"texas"}
            \/ l = "DATE" /\ w \in {"yesterday"}}

\* term_doc.similarity(synonym_doc) for two single terms
Similarity(a, b) ==
    IF a = b THEN One
    ELSE IF {a, b} = {"client", "customer"} THEN <<17, 20>>
    ELSE <<3, 10>>

\* doc.similarity(other_doc) for two texts: the overlap of their lemma sets
DocSimilarity(a, b) ==
    LET la == {Lemma(w) : w \in Range(Tokens(a))}
        lb == {Lemma(w) : w \in Range(Tokens(b))}
    IN  IF la = {} \/ lb = {} THEN Zero
        ELSE Norm(2 * Cardinality(la \cap lb), Cardinality(la) + Cardinality(lb))

(***************************************************************************)
(* Pattern index (PatternManager): pure parts.  A pattern is the sequence  *)
(* of its "LOWER" token strings; the intent map holds keyword sets.        *)
(***************************************************************************)
SchemaOf(t) == SplitOn(t, ".", "")[1]
NameOf(t) == SplitOn(t, ".", "")[2]

\* table.lower(), schema.lower(), col_name.lower(), col_name.lower().replace('_', ' ')
\* and col_type.lower() of the catalog, which is fixed while the process runs
TableLower == [t \in CatalogTables |-> Lower(NameOf(t))]
SchemaLower == [t \in CatalogTables |-> Lower(SchemaOf(t))]
ColumnLower == [t \in CatalogTables |-> [i \in 1..Len(Columns[t]) |-> Lower(Columns[t][i].name)]]
ColumnPhrase == [t \in CatalogTables |-> [i \in 1..Len(Columns[t]) |-> Unscore(ColumnLower[t][i])]]
TypeLower == [t \in CatalogTables |-> [i \in 1..Len(Columns[t]) |-> Lower(Columns[t][i].type)]]

Intents == {"name", "details", "stock", "category", "order", "brand"}

\* the context-specific two-token patterns of one table
ContextPatterns(names) ==
    (IF names \cap {"first_name", "last_name"} # {}
     THEN <<(<<"customer", "name">>), (<<"employee", "name">>)>> ELSE <<>>)
    \o (IF names \cap {"quantity", "stock"} # {}
        THEN <<(<<"stock", "availability">>)>> ELSE <<>>)
    \o (IF "category_name" \in names THEN <<(<<"product", "category">>)>> ELSE <<>>)
    \o (IF "order_id" \in names THEN <<(<<"order", "details">>)>> ELSE <<>>)
    \o (IF "store_name" \in names
        THEN <<(<<"store", "details">>), (<<"stores">>)>> ELSE <<>>)

\* the patterns _initialize_patterns builds for one table
TablePatterns(t) ==
    LET cols == Columns[t]
    IN  <<(<<TableLower[t]>>), (<<SchemaLower[t]>>)>>
        \o [i \in 1..Len(cols) |-> <<ColumnPhrase[t][i]>>]
        \o ContextPatterns(ColumnNames(cols))

\* _initialize_patterns()
InitialPatterns == [t \in CatalogTables |-> TablePatterns(t)]

\* _initialize_patterns() over a freshly built catalog in which the tables of
\* gaps have no columns: such a table gets its name and schema patterns only
InitialPatternsOver(gaps) ==
    [t \in CatalogTables |->
        IF t \in gaps THEN <<(<<TableLower[t]>>), (<<SchemaLower[t]>>)>>
        ELSE InitialPatterns[t]]

\* _get_default_entity_mappings()
DefaultEntityMappings ==
    [i \in Intents |->
        CASE i = "name" -> {"name", "first_name", "last_name", "fname", "lname"}
          [] i = "details" -> {"address", "city", "state", "zip_code", "store_name"}
          [] i = "stock" -> {"quantity", "stock", "inventory"}
          [] i = "category" -> {"category", "category_name"}
          [] i = "order" -> {"order", "order_id", "sales", "purchase"}
          [] OTHER -> {"brand", "brand_name"}]

\* the substrings of a column name that file the column under an intent
IntentTerms ==
    [i \in Intents |->
        CASE i = "name" -> {"name"}
          [] i = "details" -> {"address", "city", "state", "zip"}
          [] i = "stock" -> {"quantity", "stock", "inventory"}
          [] i = "category" -> {"category"}
          [] i = "order" -> {"order", "sales", "purchase"}
          [] OTHER -> {"brand"}]

AllColumnNames == UNION {ColumnNames(Columns[t]) : t \in CatalogTables}

\* _initialize_entity_mappings()
InitialEntityMappings ==
    [i \in Intents |->
        DefaultEntityMappings[i] \cup
        {Lower(c) : c \in {c \in AllColumnNames :
                              \E term \in IntentTerms[i] : Contains(Lower(c), term)}}]

\* _initialize_entity_mappings() over a catalog in which the tables of gaps
\* have no columns
InitialEntityMappingsOver(gaps) ==
    [i \in Intents |->
        DefaultEntityMappings[i] \cup
        {Lower(c) : c \in {c \in UNION {ColumnNames(Columns[t]) : t \in CatalogTables \ gaps} :
                              \E term \in IntentTerms[i] : Contains(Lower(c), term)}}]

\* the exact column names whose presence lets update_patterns extend an intent
TriggerColumns ==
    [i \in Intents |->
        CASE i = "name" -> {"first_name", "last_name", "name"}
          [] i = "details" -> {"address", "city", "state", "zip_code", "store_name"}
          [] i = "stock" -> {"quantity", "stock", "inventory"}
          [] i = "category" -> {"category_name"}
          [] i = "order" -> {"order_id", "sales"}
          [] OTHER -> {"brand_name"}]

\* pattern-based matching by the phrase alone
PhraseRuleTables(pats, query_lower) ==
    {t \in DOMAIN pats :
        \E i \in 1..Len(pats[t]) : Contains(query_lower, JoinWith(pats[t][i], " "))}

\* pattern-based matching: phrase substring, or all pattern tokens in the query
PatternRuleTables(pats, query_lower) ==
    LET query_tokens == QueryTokens(query_lower)
    IN  {t \in DOMAIN pats :
            \E i \in 1..Len(pats[t]) :
                \/ Contains(query_lower, JoinWith(pats[t][i], " "))
                \/ Range(pats[t][i]) \subseteq query_tokens}

\* entity-based matching: DATE and GPE entities against column types and names
EntityRuleTables(gaps, query_lower) ==
    LET labels == EntityLabels(query_lower)
    IN  {t \in CatalogTables \ gaps :
            \E i \in 1..Len(Columns[t]) :
                \/ /\ "DATE" \in labels
                   /\ TypeLower[t][i] \in {"date", "datetime", "timestamp"}
                \/ /\ "GPE" \in labels
                   /\ \E term \in {"city", "state", "country"} :
                         Contains(ColumnLower[t][i], term)}

\* intent-based matching: a keyword in the query and in a column name
IntentRuleTables(ents, gaps, query_lower) ==
    LET hit == {k \in UNION {ents[i] : i \in DOMAIN ents} : Contains(query_lower, k)}
    IN  {t \in CatalogTables \ gaps :
            \E k \in hit : \E i \in 1..Len(Columns[t]) :
                Contains(ColumnLower[t][i], k)}

\* the referenced tables of the matched tables that have foreign keys
ForeignKeyTables(matched) ==
    UNION {Range(ForeignKeys[t]) : t \in matched \cap CatalogTables}

\* _keyword_fallback(query)
KeywordFallback(query) ==
    LET query_lower == Lower(query)
    IN  {t \in CatalogTables :
            \/ Contains(query_lower, TableLower[t])
            \/ Contains(query_lower, SchemaLower[t])
            \/ \E i \in 1..Len(Columns[t]) : Contains(query_lower, ColumnPhrase[t][i])}

\* the tables matched by the pattern, entity and intent rules of match_pattern
RuleTables(pats, ents, gaps, query_lower) ==
    PatternRuleTables(pats, query_lower)
        \cup EntityRuleTables(gaps, query_lower)
        \cup IntentRuleTables(ents, gaps, query_lower)

\* the widening repeated on the tables it added
WithForeignKeysTwice(matched) ==
    matched \cup ForeignKeyTables(matched) \cup ForeignKeyTables(ForeignKeyTables(matched))

\* the rule-matched tables widened by the tables their foreign keys reference
WithForeignKeys(matched) == matched \cup ForeignKeyTables(matched)

\* whether _keyword_fallback raises: schema_dict['columns'][schema][table] is a
\* KeyError for a table without an entry when the catalog is the plain dict
\* read from the schema cache file
FallbackRaises(gaps) == gaps # {}

\* match_pattern(query), as the set of the returned list
MatchPattern(pats, ents, nlp_ok, gaps, query) ==
    IF ~nlp_ok THEN KeywordFallback(query)
    ELSE WithForeignKeys(RuleTables(pats, ents, gaps, Lower(query)))

\* the single-keyword pattern is added when the keyword is in a column name
IsRelevant(keyword, t, gaps) ==
    /\ t \in CatalogTables \ gaps
    /\ \E i \in 1..Len(ColumnPhrase[t]) : Contains(ColumnPhrase[t][i], keyword)

RECURSIVE AddKeywordPatterns(_, _, _, _)
\* for keyword in keywords: append [keyword] to the table's patterns if relevant and new
AddKeywordPatterns(plist, keywords, t, gaps) ==
    IF keywords = <<>> THEN plist
    ELSE LET k == Head(keywords)
             new == <<k>>
             grown == IF IsRelevant(k, t, gaps) /\ new \notin Range(plist)
                      THEN Append(plist, new) ELSE plist
         IN  AddKeywordPatterns(grown, Tail(keywords), t, gaps)

RECURSIVE UpdatedPatterns(_, _, _, _)
\* the pattern part of update_patterns, table by table
UpdatedPatterns(pats, keywords, tables, gaps) ==
    IF tables = <<>> THEN pats
    ELSE LET t == Head(tables)
             had == IF t \in DOMAIN pats THEN pats[t] ELSE <<>>
             now == AddKeywordPatterns(had, keywords, t, gaps)
         IN  UpdatedPatterns([x \in DOMAIN pats \cup {t} |-> IF x = t THEN now ELSE pats[x]],
                             keywords, Tail(tables), gaps)

\* the intent part of update_patterns: every keyword joins the intents whose
\* trigger columns one of the confirmed tables has
UpdatedEntityMappings(ents, keywords, tables, gaps) ==
    [i \in DOMAIN ents |->
        IF /\ i \in Intents
           /\ \E j \in 1..Len(tables) :
                 ColumnNames(RelevantColumns(tables[j], gaps))
                     \cap TriggerColumns[i] # {}
        THEN ents[i] \cup Range(keywords)
        ELSE ents[i]]

(***************************************************************************)
(* Synonym index (NameMatchManager): pure parts.  synonyms maps a table to *)
(* its list of lemmas; matches maps a lemma to {table -> score}.  A score  *)
(* dictionary entry that does not exist is Absent.                         *)
(***************************************************************************)
Absent == <<>>

NameThreshold == <<4, 5>>
LiteralScore == <<9, 10>>

\* matches.get(table, 0.0)
ScoreOr0(acc) == IF acc = Absent THEN Zero ELSE acc

\* the first loop keeping the largest hit instead of adding the hits up
LiteralStepKeepingLargest(acc, synonym, table, terms, mat) ==
    IF synonym \in Range(terms) THEN RMax(ScoreOr0(acc), LiteralScore)
    ELSE IF synonym \in DOMAIN mat /\ table \in DOMAIN mat[synonym]
         THEN RMax(ScoreOr0(acc), mat[synonym][table])
         ELSE acc

\* what one synonym of the table adds in the first loop of get_matches
LiteralStep(acc, synonym, table, terms, mat) ==
    IF synonym \in Range(terms) THEN RAdd(ScoreOr0(acc), LiteralScore)
    ELSE IF synonym \in DOMAIN mat /\ table \in DOMAIN mat[synonym]
         THEN RAdd(ScoreOr0(acc), mat[synonym][table])
         ELSE acc

RECURSIVE LiteralPass(_, _, _, _, _)
\* for synonym in synonyms: the literal or memoized hit is added to matches[table]
LiteralPass(acc, syns, table, terms, mat) ==
    IF syns = <<>> THEN acc
    ELSE LiteralPass(LiteralStep(acc, Head(syns), table, terms, mat),
                     Tail(syns), table, terms, mat)

\* the similarity written over the score instead of the larger of the two kept
SimilarityStepOverwriting(acc, term, synonym) ==
    IF RLt(NameThreshold, Similarity(term, synonym))
    THEN Similarity(term, synonym)
    ELSE acc

\* what one (term, synonym) pair does in the second loop of get_matches
SimilarityStep(acc, term, synonym) ==
    IF RLt(NameThreshold, Similarity(term, synonym))
    THEN RMax(ScoreOr0(acc), Similarity(term, synonym))
    ELSE acc

RECURSIVE SimilarityRow(_, _, _)
SimilarityRow(acc, term, syns) ==
    IF syns = <<>> THEN acc
    ELSE SimilarityRow(SimilarityStep(acc, term, Head(syns)), term, Tail(syns))

RECURSIVE SimilarityPass(_, _, _)
\* for term in query_terms: for synonym in synonyms: matches[table] = max(...)
SimilarityPass(acc, terms, syns) ==
    IF terms = <<>> THEN acc
    ELSE SimilarityPass(SimilarityRow(acc, Head(terms), syns), Tail(terms), syns)

\* get_matches(query): table -> score, for the tables that got an entry
GetMatches(syn, mat, nlp_ok, query) ==
    IF ~nlp_ok THEN <<>>
    ELSE LET terms == QueryTerms(Lower(query))
             score == [t \in DOMAIN syn |->
                         SimilarityPass(LiteralPass(Absent, syn[t], t, terms, mat),
                                        terms, syn[t])]
         IN  [t \in {x \in DOMAIN syn : score[x] # Absent} |-> score[t]]

RECURSIVE AddTermsUnchecked(_, _)
\* every term appended, present or not
AddTermsUnchecked(syns, terms) ==
    IF terms = <<>> THEN syns
    ELSE AddTermsUnchecked(Append(syns, Head(terms)), Tail(terms))

RECURSIVE AddTerms(_, _)
\* for term in terms: append term to the table's synonyms if absent
AddTerms(syns, terms) ==
    IF terms = <<>> THEN syns
    ELSE AddTerms(IF Head(terms) \in Range(syns) THEN syns ELSE Append(syns, Head(terms)),
                  Tail(terms))

RECURSIVE UpdatedSynonyms(_, _, _)
\* the synonym part of update_matches, table by table
UpdatedSynonyms(syn, terms, tables) ==
    IF tables = <<>> THEN syn
    ELSE LET t == Head(tables)
             had == IF t \in DOMAIN syn THEN syn[t] ELSE <<>>
         IN  UpdatedSynonyms(
                 [x \in DOMAIN syn \cup {t} |-> IF x = t THEN AddTerms(had, terms) ELSE syn[x]],
                 terms, Tail(tables))

\* the memo raised by 0.9 at every confirmation
UpdatedMatchesAccumulating(mat, terms, tables) ==
    [l \in DOMAIN mat \cup (IF tables = <<>> THEN {} ELSE Range(terms)) |->
        LET had == IF l \in DOMAIN mat THEN mat[l] ELSE <<>>
        IN  IF l \in Range(terms)
            THEN [t \in DOMAIN had \cup Range(tables) |->
                     IF t \in DOMAIN had /\ t \in Range(tables)
                     THEN RAdd(had[t], LiteralScore)
                     ELSE IF t \in DOMAIN had THEN had[t] ELSE LiteralScore]
            ELSE had]

\* matches[term][table] = matches[term].get(table, 0.9) for every term and table
UpdatedMatches(mat, terms, tables) ==
    [l \in DOMAIN mat \cup (IF tables = <<>> THEN {} ELSE Range(terms)) |->
        LET had == IF l \in DOMAIN mat THEN mat[l] ELSE <<>>
        IN  IF l \in Range(terms)
            THEN [t \in DOMAIN had \cup Range(tables) |->
                     IF t \in DOMAIN had THEN had[t] ELSE LiteralScore]
            ELSE had]

(***************************************************************************)
(* Weight ledger (TableIdentifier): pure parts.                            *)
(***************************************************************************)
DefaultWeight == One
Boost == <<3, 10>>
PenaltyFactor == <<17, 20>>
DecayFactor == <<19, 20>>
WeightFloor == <<1, 2>>

\* self.weights.get(table, 1.0)
WeightOf(w, t) == IF t \in DOMAIN w THEN w[t] ELSE DefaultWeight

\* w with w[t] set to v (the key is created when missing)
Put(w, t, v) == [x \in DOMAIN w \cup {t} |-> IF x = t THEN v ELSE w[x]]

RECURSIVE BoostSelected(_, _)
\* for table in selected_tables: weights[table] = weights.get(table, 1.0) + 0.3
BoostSelected(w, selected) ==
    IF selected = <<>> THEN w
    ELSE BoostSelected(Put(w, Head(selected), RAdd(WeightOf(w, Head(selected)), Boost)),
                       Tail(selected))

\* the penalty with the floor forgotten
PenalisedUnclamped(w, t) == RMul(WeightOf(w, t), PenaltyFactor)

\* max(0.5, weights.get(table, 1.0) * 0.85)
Penalised(w, t) == RMax(WeightFloor, RMul(WeightOf(w, t), PenaltyFactor))

\* the decay taken at the penalty's rate
DecayedAtPenaltyRate(w, t) == RMax(WeightFloor, RMul(WeightOf(w, t), PenaltyFactor))

\* max(0.5, weights.get(table, 1.0) * 0.95)
Decayed(w, t) == RMax(WeightFloor, RMul(WeightOf(w, t), DecayFactor))

\* for table in set(all_tables) - set(selected_tables): ...
PenaliseUnselected(w, selected, all) ==
    LET losers == Range(all) \ Range(selected)
    IN  [t \in DOMAIN w \cup losers |-> IF t \in losers THEN Penalised(w, t) ELSE w[t]]

\* for table in set(self.weights.keys()) - set(all_tables): ...
DecayUnused(w, all) ==
    [t \in DOMAIN w |-> IF t \notin Range(all) THEN Decayed(w, t) ELSE w[t]]

AdjustedWeights(w, selected, all) ==
    DecayUnused(PenaliseUnselected(BoostSelected(w, selected), selected, all), all)

(***************************************************************************)
(* Table ranker (TableIdentifier): pure parts.                             *)
(***************************************************************************)
PatternConfidence == <<9, 10>>
FeedbackConfidence == <<19, 20>>
TrainingThreshold == <<17, 20>>
TopK == 5

\* db_config_trainer.csv as loaded by _load_training_data: one record whose
\* table list names a table of the catalog and one the ledger does not track
TrainingCsv ==
    <<[query |-> "customer name list", tables |-> <<"sales.customers", "hr.employees">>]>>

RECURSIVE FeedbackTables(_, _)
\* the tables of every training record whose query is similar to the query
FeedbackTables(records, query_lower) ==
    IF records = <<>> THEN {}
    ELSE LET r == Head(records)
             hit == /\ r.query # "" /\ r.tables # <<>>
                    /\ RLt(TrainingThreshold, DocSimilarity(query_lower, Lower(r.query)))
         IN  (IF hit THEN Range(r.tables) ELSE {}) \cup FeedbackTables(Tail(records), query_lower)

\* _get_feedback_tables(query)
GetFeedbackTables(records, nlp_ok, query) ==
    IF records = <<>> \/ ~nlp_ok THEN {} ELSE FeedbackTables(records, Lower(query))

\* the number of string hash seeds a process can start with
NumSeeds == 2

CharCode(c) == IF LowerChar(c) \in DOMAIN LetterCode THEN LetterCode[LowerChar(c)] ELSE 0

RECURSIVE StringHash(_, _)
\* the seeded hash of a string, which fixes where it sits in a set
StringHash(str, h) ==
    IF str = "" THEN h
    ELSE StringHash(SubSeq(str, 2, Len(str)),
                    (h * 31 + CharCode(CharAt(str, 1))) % 101)

\* the hashes of the catalog's identifiers under each seed; a string's hash is
\* computed once and kept
CatalogHash == [seed \in 1..NumSeeds |-> [t \in CatalogTables |-> StringHash(t, seed)]]

HashOf(t, seed) ==
    IF seed \in DOMAIN CatalogHash /\ t \in CatalogTables
    THEN CatalogHash[seed][t] ELSE StringHash(t, seed)

RECURSIVE InsertByHash(_, _, _)
\* list with x put before the first element whose hash is larger
InsertByHash(list, x, seed) ==
    IF list = <<>> THEN <<x>>
    ELSE IF HashOf(x, seed) < HashOf(Head(list), seed) THEN <<x>> \o list
    ELSE <<Head(list)>> \o InsertByHash(Tail(list), x, seed)

RECURSIVE SetAsList(_, _)
\* list(a_set): the elements in the order of their seeded hashes
SetAsList(S, seed) ==
    IF S = {} THEN <<>>
    ELSE LET x == CHOOSE x \in S : TRUE
         IN  InsertByHash(SetAsList(S \ {x}, seed), x, seed)

RECURSIVE InsertByWeight(_, _, _)
\* sorted so far, with x put behind every element that weighs at least as much
InsertByWeight(sorted, x, w) ==
    IF sorted = <<>> THEN <<x>>
    ELSE IF RLe(WeightOf(w, x), WeightOf(w, Head(sorted)))
         THEN <<Head(sorted)>> \o InsertByWeight(Tail(sorted), x, w)
         ELSE <<x>> \o sorted

RECURSIVE SortedFrom(_, _, _)
SortedFrom(sorted, list, w) ==
    IF list = <<>> THEN sorted
    ELSE SortedFrom(InsertByWeight(sorted, Head(list), w), Tail(list), w)

\* the list left in the order it came in
InListOrder(list, w) == list

\* sorted(tables, key=lambda t: weights.get(t, 1.0), reverse=True): a stable sort
SortedByWeight(list, w) == SortedFrom(<<>>, list, w)

\* list[:n]
Prefix(list, n) == SubSeq(list, 1, IF Len(list) < n THEN Len(list) ELSE n)

\* the mean weight without the cap at 1.0
MeanWeight(tables, w) ==
    IF tables = <<>> THEN Zero
    ELSE RDivInt(RSum([i \in 1..Len(tables) |-> WeightOf(w, tables[i])]), Len(tables))

\* the weight score taken over the five tables that are returned
WeightScoreOfReturned(tables, w) ==
    IF tables = <<>> THEN Zero
    ELSE RMin(MeanWeight(Prefix(SortedByWeight(tables, w), TopK), w), One)

\* _calculate_weight_score(tables)
CalculateWeightScore(tables, w) ==
    IF tables = <<>> THEN Zero
    ELSE RMin(RDivInt(RSum([i \in 1..Len(tables) |-> WeightOf(w, tables[i])]), Len(tables)),
              One)

\* the end of identify_tables: the confidence and the ranked list
Ranked(w, query, pattern_tables, name_matches, name_tables, feedback_tables, pattern_confidence, name_confidence, feedback_confidence, matched_tables, tables) ==
    [name |-> "identify_tables", query |-> query,
     pattern_tables |-> pattern_tables, pattern_confidence |-> pattern_confidence,
     name_matches |-> name_matches, name_tables |-> name_tables,
     name_confidence |-> name_confidence,
     feedback_tables |-> feedback_tables, feedback_confidence |-> feedback_confidence,
     matched_tables |-> matched_tables,
     tables |-> IF tables = <<>> THEN <<>> ELSE Prefix(SortedByWeight(tables, w), TopK),
     confidence |->
         IF tables = <<>> THEN Zero
         ELSE RMul(RMax(pattern_confidence, RMax(name_confidence, feedback_confidence)),
                   CalculateWeightScore(tables, w))]

\* the combined tables with the name-matched tables left out
FusedWithoutNames(w, seed, query, pattern_tables, name_matches, name_tables, feedback_tables) ==
    Ranked(w, query, pattern_tables, name_matches, name_tables, feedback_tables,
           IF pattern_tables # {} THEN PatternConfidence ELSE Zero,
           RMaxOf(SetAsList(DOMAIN name_matches, seed), name_matches, Zero),
           IF feedback_tables # {} THEN FeedbackConfidence ELSE Zero,
           pattern_tables \cup feedback_tables,
           SetAsList(pattern_tables \cup feedback_tables, seed))

\* the middle of identify_tables: the three signals and the combined tables
Fused(w, seed, query, pattern_tables, name_matches, name_tables, feedback_tables) ==
    Ranked(w, query, pattern_tables, name_matches, name_tables, feedback_tables,
           IF pattern_tables # {} THEN PatternConfidence ELSE Zero,
           RMaxOf(SetAsList(DOMAIN name_matches, seed), name_matches, Zero),
           IF feedback_tables # {} THEN FeedbackConfidence ELSE Zero,
           pattern_tables \cup name_tables \cup feedback_tables,
           SetAsList(pattern_tables \cup name_tables \cup feedback_tables, seed))

\* [table for table, score in name_matches.items() if score >= 0.8]
NameTables(name_matches) ==
    {t \in DOMAIN name_matches : RLe(NameThreshold, name_matches[t])}

WithNameTables(w, seed, query, pattern_tables, name_matches, feedback_tables) ==
    Fused(w, seed, query, pattern_tables, name_matches, NameTables(name_matches),
          feedback_tables)

\* identify_tables(query): what it computes and returns
Identified(w, pats, ents, syn, mat, records, nlp_ok, gaps, seed, query) ==
    IF ~nlp_ok /\ FallbackRaises(gaps)
    THEN [name |-> "identify_tables", query |-> query, raised |-> TRUE]
    ELSE WithNameTables(w, seed, query,
                        MatchPattern(pats, ents, nlp_ok, gaps, query),
                        GetMatches(syn, mat, nlp_ok, query),
                        GetFeedbackTables(records, nlp_ok, query))

(***************************************************************************)
(* Feedback store (FeedbackManager): pure parts.  The feedback table has   *)
(* no key, so its rows are a list; query_counts is keyed by the query.     *)
(***************************************************************************)
FeedbackEntry(query, tables, weight) ==
    [query |-> query, tables |-> tables, weight |-> weight]

\* INSERT OR REPLACE INTO feedback (query, tables, weight): the table declares
\* no PRIMARY KEY or UNIQUE column, so nothing conflicts and the row is added
InsertOrReplaceFeedback(rows, query, tables, weight) ==
    Append(rows, FeedbackEntry(query, tables, weight))

\* get_query_count(query): SELECT count FROM query_counts WHERE query = ?
QueryCount(counts, query) == IF query \in DOMAIN counts THEN counts[query] ELSE 0

\* the write as INSERT OR IGNORE: an existing row keeps its count
InsertOrIgnoreCount(counts, query, count) ==
    IF query \in DOMAIN counts THEN counts
    ELSE [q \in DOMAIN counts \cup {query} |-> IF q = query THEN count ELSE counts[q]]

\* INSERT OR REPLACE INTO query_counts (query, count): query is the PRIMARY KEY
InsertOrReplaceCount(counts, query, count) ==
    [q \in DOMAIN counts \cup {query} |-> IF q = query THEN count ELSE counts[q]]

\* json.dumps(tables) for a list of strings: the text of the tables column
JsonDumps(list) ==
    "[" \o JoinWith([i \in 1..Len(list) |-> "\"" \o list[i] \o "\""], ", ") \o "]"

RECURSIVE JsonStrings(_, _, _)
\* the string literals of a JSON array text, in order; cur is the literal being read
JsonStrings(text, inside, cur) ==
    IF text = "" THEN <<>>
    ELSE LET c == CharAt(text, 1)
             rest == SubSeq(text, 2, Len(text))
         IN  IF c = "\""
             THEN IF inside THEN <<cur>> \o JsonStrings(rest, FALSE, "")
                  ELSE JsonStrings(rest, TRUE, "")
             ELSE JsonStrings(rest, inside, IF inside THEN cur \o c ELSE "")

\* json.loads(text) for the text of a tables column
JsonLoads(text) == JsonStrings(text, FALSE, "")

\* SELECT query, tables, weight FROM feedback, each tables text read with json.loads
SelectFeedback(rows) ==
    [i \in 1..Len(rows) |->
        FeedbackEntry(rows[i].query, JsonLoads(JsonDumps(rows[i].tables)), rows[i].weight)]

\* export_data: {"feedback": [...], "query_counts": {...}}
ExportDocument(rows, counts) ==
    [feedback |-> SelectFeedback(rows), query_counts |-> counts]

RECURSIVE ImportedFeedback(_, _)
\* for entry in import_data["feedback"]: if query and tables: INSERT OR REPLACE ...
ImportedFeedback(rows, entries) ==
    IF entries = <<>> THEN rows
    ELSE LET e == Head(entries)
             kept == e.query # "" /\ e.tables # <<>>
         IN  ImportedFeedback(
                 IF kept
                 THEN InsertOrReplaceFeedback(rows, e.query, JsonLoads(JsonDumps(e.tables)),
                                              e.weight)
                 ELSE rows,
                 Tail(entries))

\* for query, count in import_data["query_counts"].items(): INSERT OR REPLACE ...
ImportedCounts(counts, document_counts) ==
    [q \in DOMAIN counts \cup DOMAIN document_counts |->
        IF q \in DOMAIN document_counts THEN document_counts[q] ELSE counts[q]]

FeedbackThreshold == <<4, 5>>

RECURSIVE BestFeedback(_, _, _, _)
\* the scan of get_similar_feedback: the first entry with the highest
\* similarity above 0.8, None when there is none
BestFeedback(entries, query_lower, max_similarity, best) ==
    IF entries = <<>> THEN best
    ELSE LET similarity == DocSimilarity(query_lower, Lower(Head(entries).query))
         IN  IF RLt(max_similarity, similarity) /\ RLt(FeedbackThreshold, similarity)
             THEN BestFeedback(Tail(entries), query_lower, similarity, <<Head(entries)>>)
             ELSE BestFeedback(Tail(entries), query_lower, max_similarity, best)

(***************************************************************************)
(* Table validation (DatabaseAnalyzer.validate_tables_exist).              *)
(***************************************************************************)
\* schema_map = {s.lower(): s for s in schema_dict['tables']}
SchemaMap ==
    [l \in {Lower(x) : x \in Range(Schemas)} |->
        CHOOSE x \in Range(Schemas) : Lower(x) = l]

\* {t.lower() for t in schema_dict['tables'][schema]}
TablesLower == [x \in Range(Schemas) |-> {Lower(t) : t \in Range(SchemaTables[x])}]

RECURSIVE ValidTables(_)
\* the valid list of validate_tables_exist(tables)
ValidTables(tables) ==
    IF tables = <<>> THEN <<>>
    ELSE LET parts == SplitOn(Head(tables), ".", "")
             schema_lower == Lower(parts[1])
             found == /\ Len(parts) = 2
                      /\ schema_lower \in DOMAIN SchemaMap
                      /\ Lower(parts[2]) \in TablesLower[SchemaMap[schema_lower]]
         IN  (IF found THEN <<FullName(SchemaMap[schema_lower], parts[2])>> ELSE <<>>)
             \o ValidTables(Tail(tables))

(***************************************************************************)
(* State.                                                                  *)
(***************************************************************************)
VARIABLES
    weights,          \* TableIdentifier.weights: table -> weight
    patterns,         \* PatternManager.patterns: table -> list of patterns
    entity_mappings,  \* PatternManager.entity_mappings: intent -> keywords
    synonyms,         \* NameMatchManager.synonyms: table -> list of lemmas
    matches,          \* NameMatchManager.matches: lemma -> {table -> score}
    training_data,    \* TableIdentifier.training_data: the CSV records
    nlp,              \* whether the spaCy model loaded
    hash_seed,        \* the string hash seed of the running process
    redis,            \* the cache store: key -> Some(value), None when the key is absent
    synonyms_file,    \* the synonyms JSON file: Some(content), None when it does not exist
    feedback_rows,    \* SQLite table feedback
    query_counts,     \* SQLite table query_counts
    op,               \* the last call made and what it returned
    steps,            \* history: number of operations performed so far
    store_calls,      \* history: the store_feedback calls made so far, in order
    column_gaps,      \* the catalog tables that have no entry in schema_dict['columns']
    export_file,      \* the feedback export JSON file: Some(document), None when missing
    exported,         \* history: the durable store as it was at the last export
    callers,          \* per concurrent caller of confirm_tables: position and local values
    session           \* the CLI's query mode: the query and the state of its retry loop

learned == <<weights, patterns, entity_mappings, synonyms, matches>>

durable == <<feedback_rows, query_counts, store_calls>>

process == <<training_data, nlp, hash_seed, column_gaps>>

exchange == <<export_file, exported>>

vars == <<weights, patterns, entity_mappings, synonyms, matches, training_data, nlp,
          hash_seed, redis, synonyms_file, feedback_rows, query_counts, op, steps,
          store_calls, column_gaps, export_file, exported, callers, session>>

\* an optional value: None, or Some(v)
None == <<>>
Some(v) == <<v>>

RedisKeys == {"weights", "name_matches", "patterns", "entities", "feedback"}

EmptyMap == <<>>

(***************************************************************************)
(* Loading at construction (the __init__ of each component).               *)
(***************************************************************************)
\* _load_weights(): the cached weights, or 1.0 for every catalog table
LoadedWeights(r) ==
    IF r["weights"] # None THEN r["weights"][1]
    ELSE [t \in CatalogTables |-> DefaultWeight]

\* _load_patterns(): the cached patterns, or the patterns built from the catalog
LoadedPatterns(r) == IF r["patterns"] # None THEN r["patterns"][1] ELSE InitialPatterns

\* _load_entity_mappings(): the cached intent map, or the one built from the catalog
LoadedEntityMappings(r) ==
    IF r["entities"] # None THEN r["entities"][1] ELSE InitialEntityMappings

\* _load_synonyms(): the file's content, or {} when there is no file
LoadedSynonyms(file) == IF file # None THEN file[1] ELSE EmptyMap

\* _load_matches(): the cached matches, or {}
LoadedMatches(r) == IF r["name_matches"] # None THEN r["name_matches"][1] ELSE EmptyMap

\* the cache once every component has been constructed over it
RedisAfterLoad(r) ==
    [r EXCEPT !["weights"] = Some(LoadedWeights(r)),
              !["patterns"] = Some(LoadedPatterns(r)),
              !["entities"] = Some(LoadedEntityMappings(r))]

\* _load_patterns() when cache calls may fail with RedisError: read_ok is the
\* first get, write_ok the set inside _initialize_patterns, reread_ok the get
\* that follows it.  An absent key whose set fails is read back as absent and
\* the function returns {}.
LoadPatterns(r, read_ok, write_ok, reread_ok) ==
    IF ~read_ok THEN InitialPatterns
    ELSE IF r["patterns"] # None THEN r["patterns"][1]
    ELSE IF ~reread_ok THEN InitialPatterns
    ELSE IF write_ok THEN InitialPatterns
    ELSE EmptyMap

\* the patterns key after _load_patterns(): _initialize_patterns sets it
\* whenever it runs and the set succeeds
PatternsKeyAfterLoad(r, read_ok, write_ok) ==
    IF (~read_ok \/ r["patterns"] = None) /\ write_ok THEN Some(InitialPatterns)
    ELSE r["patterns"]

\* _load_entity_mappings() under the same failures: a failed get yields the
\* default mappings, an absent key whose set fails yields {}
LoadEntityMappings(r, read_ok, write_ok, reread_ok) ==
    IF ~read_ok THEN DefaultEntityMappings
    ELSE IF r["entities"] # None THEN r["entities"][1]
    ELSE IF ~reread_ok THEN DefaultEntityMappings
    ELSE IF write_ok THEN InitialEntityMappings
    ELSE EmptyMap

\* the entities key after _load_entity_mappings()
EntitiesKeyAfterLoad(r, read_ok, write_ok) ==
    IF read_ok /\ r["entities"] = None /\ write_ok THEN Some(InitialEntityMappings)
    ELSE r["entities"]

(***************************************************************************)
(* Operations.                                                             *)
(***************************************************************************)
\* _save_weights(): redis.set(f"{db_name}:weights", json.dumps(self.weights))
SaveWeights(r, w) == [r EXCEPT !["weights"] = Some(w)]

\* TableIdentifier.adjust_weights(selected_tables, all_tables)
adjust_weights(selected_tables, all_tables) ==
    /\ weights' = AdjustedWeights(weights, selected_tables, all_tables)
    /\ redis' = SaveWeights(redis, weights')
    /\ op' = [name |-> "adjust_weights", selected |-> selected_tables, known |-> all_tables]
    /\ steps' = steps + 1
    /\ UNCHANGED <<patterns, entity_mappings, synonyms, matches, synonyms_file>>
    /\ UNCHANGED <<durable, process, exchange, callers, session>>

\* the cache mirror after store_feedback appended its entry
CachedFeedback(r, query, tables, weight) ==
    [r EXCEPT !["feedback"] =
        Some(Append(IF @ = None THEN <<>> ELSE @[1], FeedbackEntry(query, tables, weight)))]

\* FeedbackManager.store_feedback(query, tables, weight)
store_feedback(query, tables, weight) ==
    /\ feedback_rows' = InsertOrReplaceFeedback(feedback_rows, query, tables, weight)
    /\ query_counts' =
           InsertOrReplaceCount(query_counts, query, QueryCount(query_counts, query) + 1)
    /\ redis' = CachedFeedback(redis, query, tables, weight)
    /\ store_calls' = Append(store_calls, FeedbackEntry(query, tables, weight))
    /\ op' = [name |-> "store_feedback", query |-> query, tables |-> tables,
              weight |-> weight]
    /\ steps' = steps + 1
    /\ UNCHANGED <<learned, synonyms_file, process, exchange, callers, session>>

\* FeedbackManager.get_query_count(query)
get_query_count(query) ==
    /\ op' = [name |-> "get_query_count", query |-> query,
              count |-> QueryCount(query_counts, query)]
    /\ steps' = steps + 1
    /\ UNCHANGED <<learned, redis, synonyms_file, durable, process, exchange, callers, session>>

\* FeedbackManager.export_feedback()
export_feedback ==
    /\ export_file' = Some(ExportDocument(feedback_rows, query_counts))
    /\ exported' = Some([rows |-> feedback_rows, counts |-> query_counts])
    /\ op' = [name |-> "export_feedback"]
    /\ steps' = steps + 1
    /\ UNCHANGED <<learned, redis, synonyms_file, durable, process, callers, session>>

\* FeedbackManager.import_feedback(): nothing happens without the file
import_feedback ==
    /\ feedback_rows' =
           IF export_file = None THEN feedback_rows
           ELSE ImportedFeedback(feedback_rows, export_file[1].feedback)
    /\ query_counts' =
           IF export_file = None THEN query_counts
           ELSE ImportedCounts(query_counts, export_file[1].query_counts)
    /\ redis' =
           IF export_file = None THEN redis
           ELSE [redis EXCEPT !["feedback"] = Some(export_file[1].feedback)]
    /\ op' = [name |-> "import_feedback"]
    /\ steps' = steps + 1
    /\ UNCHANGED <<learned, synonyms_file, store_calls, process, exchange, callers, session>>

\* FeedbackManager.clear_feedback()
clear_feedback ==
    /\ feedback_rows' = <<>>
    /\ query_counts' = EmptyMap
    /\ redis' = [redis EXCEPT !["feedback"] = None]
    /\ op' = [name |-> "clear_feedback"]
    /\ steps' = steps + 1
    /\ UNCHANGED <<learned, synonyms_file, store_calls, process, exchange, callers, session>>

\* the entry found in the durable store added to the cached list
WarmedCacheAppending(r, best) ==
    [r EXCEPT !["feedback"] =
        Some((IF r["feedback"] = None THEN <<>> ELSE r["feedback"][1]) \o <<best>>)]

\* feedback_list = [best_feedback]; redis_client.set(feedback_key, ...)
WarmedCache(r, best) == [r EXCEPT !["feedback"] = Some(<<best>>)]

\* FeedbackManager.get_similar_feedback(query); cache_reachable tells whether
\* the cache server answers during the call (redis_client.get raises otherwise)
get_similar_feedback(query, cache_reachable) ==
    LET query_lower == Lower(query)
        cached == IF redis["feedback"] = None THEN <<>> ELSE redis["feedback"][1]
        from_cache == BestFeedback(cached, query_lower, Zero, None)
        from_store == BestFeedback(SelectFeedback(feedback_rows), query_lower, Zero, None)
        scanned == nlp /\ cache_reachable
    IN  /\ op' = [name |-> "get_similar_feedback", query |-> query,
                  cache_reachable |-> cache_reachable,
                  result |-> IF ~scanned THEN None
                             ELSE IF from_cache # None THEN from_cache ELSE from_store]
        /\ redis' =
               IF scanned /\ from_cache = None /\ from_store # None
               THEN WarmedCache(redis, from_store[1])
               ELSE redis
        /\ steps' = steps + 1
        /\ UNCHANGED <<learned, synonyms_file, durable, process, exchange, callers, session>>

\* NameMatchManager.update_matches(query, tables): nothing without the NLP model
update_matches(query, tables) ==
    LET terms == QueryTerms(Lower(query))
    IN  /\ synonyms' = IF nlp THEN UpdatedSynonyms(synonyms, terms, tables) ELSE synonyms
        /\ matches' = IF nlp THEN UpdatedMatches(matches, terms, tables) ELSE matches
        /\ synonyms_file' = IF nlp THEN Some(synonyms') ELSE synonyms_file
        /\ redis' = IF nlp THEN [redis EXCEPT !["name_matches"] = Some(matches')] ELSE redis
        /\ op' = [name |-> "update_matches", query |-> query, tables |-> tables]
        /\ steps' = steps + 1
        /\ UNCHANGED <<weights, patterns, entity_mappings, durable, process, exchange, callers, session>>

\* NameMatchManager.get_matches(query)
get_matches(query) ==
    /\ op' = [name |-> "get_matches", query |-> query,
              matches |-> GetMatches(synonyms, matches, nlp, query)]
    /\ steps' = steps + 1
    /\ UNCHANGED <<learned, redis, synonyms_file, durable, process, exchange, callers, session>>

\* PatternManager.match_pattern(query); provider_fails tells whether the NLP
\* model raises on this query, which sends the call to the keyword fallback
match_pattern(query, provider_fails) ==
    LET fallback == ~nlp \/ provider_fails
        rule_tables == IF fallback THEN {}
                       ELSE RuleTables(patterns, entity_mappings, column_gaps, Lower(query))
        raised == fallback /\ FallbackRaises(column_gaps)
    IN  /\ op' = [name |-> "match_pattern", query |-> query, fallback |-> fallback,
                  raised |-> raised, rule_tables |-> rule_tables,
                  pattern_rule_tables |->
                      IF fallback THEN {} ELSE PatternRuleTables(patterns, Lower(query)),
                  tables |-> IF raised THEN {}
                             ELSE IF fallback THEN KeywordFallback(query)
                             ELSE WithForeignKeys(rule_tables)]
        /\ steps' = steps + 1
        /\ UNCHANGED <<learned, redis, synonyms_file, durable, process, exchange, callers, session>>

\* PatternManager.update_patterns(query, tables) for schema.table identifiers:
\* nothing without the NLP model
update_patterns(query, tables) ==
    LET keywords == QueryTerms(Lower(query))
    IN  /\ patterns' =
               IF nlp THEN UpdatedPatterns(patterns, keywords, tables, column_gaps)
               ELSE patterns
        /\ entity_mappings' =
               IF nlp THEN UpdatedEntityMappings(entity_mappings, keywords, tables, column_gaps)
               ELSE entity_mappings
        /\ redis' =
               IF nlp THEN [redis EXCEPT !["patterns"] = Some(patterns'),
                                         !["entities"] = Some(entity_mappings')]
               ELSE redis
        /\ op' = [name |-> "update_patterns", query |-> query, tables |-> tables]
        /\ steps' = steps + 1
        /\ UNCHANGED <<weights, synonyms, matches, synonyms_file, durable, process, exchange, callers, session>>

\* PatternManager(schema_dict, db_name, redis_client) over a freshly built
\* catalog: p and e tell which of the cache calls of _load_patterns and
\* _load_entity_mappings succeed, as <<first get, set, second get>>
PatternManager(p, e) ==
    /\ patterns' = LoadPatterns(redis, p[1], p[2], p[3])
    /\ entity_mappings' = LoadEntityMappings(redis, e[1], e[2], e[3])
    /\ redis' = [redis EXCEPT !["patterns"] = PatternsKeyAfterLoad(redis, p[1], p[2]),
                              !["entities"] = EntitiesKeyAfterLoad(redis, e[1], e[2])]
    /\ op' = [name |-> "PatternManager", patterns_calls |-> p, entities_calls |-> e]
    /\ steps' = steps + 1
    /\ UNCHANGED <<weights, synonyms, matches, synonyms_file, durable, process, exchange, callers, session>>

\* identify_tables with the ledger adjusted for the tables it returns
identify_tables_adjusting(query) ==
    /\ op' = Identified(weights, patterns, entity_mappings, synonyms, matches,
                        training_data, nlp, column_gaps, hash_seed, query)
    /\ weights' = AdjustedWeights(weights, op'.tables, get_all_tables)
    /\ redis' = SaveWeights(redis, weights')
    /\ steps' = steps + 1
    /\ UNCHANGED <<patterns, entity_mappings, synonyms, matches, synonyms_file>>
    /\ UNCHANGED <<durable, process, exchange, callers, session>>

\* TableIdentifier.identify_tables(query)
identify_tables(query) ==
    /\ op' = Identified(weights, patterns, entity_mappings, synonyms, matches,
                        training_data, nlp, column_gaps, hash_seed, query)
    /\ steps' = steps + 1
    /\ UNCHANGED <<learned, redis, synonyms_file, durable, process, exchange, callers, session>>

\* what confirm_tables and update_feedback do with a validated, non-empty list:
\* store_feedback, adjust_weights, update_name_matches, update_patterns
Learn(query, valid) ==
    LET terms == QueryTerms(Lower(query))
        all == get_all_tables
    IN  /\ feedback_rows' = InsertOrReplaceFeedback(feedback_rows, query, valid, One)
        /\ query_counts' =
               InsertOrReplaceCount(query_counts, query, QueryCount(query_counts, query) + 1)
        /\ store_calls' = Append(store_calls, FeedbackEntry(query, valid, One))
        /\ weights' = AdjustedWeights(weights, valid, all)
        /\ synonyms' = IF nlp THEN UpdatedSynonyms(synonyms, terms, valid) ELSE synonyms
        /\ matches' = IF nlp THEN UpdatedMatches(matches, terms, valid) ELSE matches
        /\ synonyms_file' = IF nlp THEN Some(synonyms') ELSE synonyms_file
        /\ patterns' = IF nlp THEN UpdatedPatterns(patterns, terms, valid, column_gaps) ELSE patterns
        /\ entity_mappings' =
               IF nlp THEN UpdatedEntityMappings(entity_mappings, terms, valid, column_gaps)
               ELSE entity_mappings
        /\ redis' =
               [CachedFeedback(redis, query, valid, One) EXCEPT
                   !["weights"] = Some(weights'),
                   !["name_matches"] = Some(matches'),
                   !["patterns"] = IF nlp THEN Some(patterns') ELSE @,
                   !["entities"] = IF nlp THEN Some(entity_mappings') ELSE @]
        /\ UNCHANGED <<process, exchange, callers>>

\* DatabaseAnalyzer.confirm_tables(query, tables)
confirm_tables(query, tables) ==
    LET valid == ValidTables(tables)
    IN  /\ op' = [name |-> "confirm_tables", query |-> query, tables |-> tables,
                  valid |-> valid]
        /\ steps' = steps + 1
        /\ UNCHANGED session
        /\ IF valid # <<>> THEN Learn(query, valid)
           ELSE UNCHANGED <<learned, redis, synonyms_file, durable, process, exchange, callers>>

\* DatabaseAnalyzer.update_feedback(query, tables)
update_feedback(query, tables) ==
    LET valid == ValidTables(tables)
    IN  /\ op' = [name |-> "update_feedback", query |-> query, tables |-> tables,
                  valid |-> valid]
        /\ steps' = steps + 1
        /\ UNCHANGED session
        /\ IF valid # <<>> THEN Learn(query, valid)
           ELSE UNCHANGED <<learned, redis, synonyms_file, durable, process, exchange, callers>>

(***************************************************************************)
(* confirm_tables called by several threads on one DatabaseAnalyzer: the   *)
(* call in the steps between which another thread may run.  The SQLite     *)
(* statements of store_feedback are one step (the first INSERT takes the   *)
(* database's write lock, held until the commit); the cache is read and    *)
(* written in two commands; the ledger is changed and serialised in the    *)
(* caller's thread and sent to the cache in one more command.              *)
(***************************************************************************)
\* the cache mirror set to the list as it is in the cache now plus the entry
CacheWrittenOnCurrent(r, feedback_list, entry) ==
    [r EXCEPT !["feedback"] = Some(Append(IF @ = None THEN <<>> ELSE @[1], entry))]

\* feedback_list.append(entry); redis_client.set(feedback_key, json.dumps(feedback_list))
CacheWritten(r, feedback_list, entry) ==
    [r EXCEPT !["feedback"] = Some(Append(feedback_list, entry))]

\* a step of caller c's confirm_tables call
Stepped(c, step) == [name |-> "confirm_tables", caller |-> c, step |-> step]

\* validate_tables_exist, then store_feedback up to conn.commit()
confirm_store(c, query, tables) ==
    LET valid == ValidTables(tables)
    IN  /\ callers[c].pc = "idle"
        /\ valid # <<>>
        /\ feedback_rows' = InsertOrReplaceFeedback(feedback_rows, query, valid, One)
        /\ query_counts' =
               InsertOrReplaceCount(query_counts, query, QueryCount(query_counts, query) + 1)
        /\ store_calls' = Append(store_calls, FeedbackEntry(query, valid, One))
        /\ callers' = [callers EXCEPT ![c] = [pc |-> "stored", query |-> query, tables |-> valid]]
        /\ op' = Stepped(c, "store")
        /\ steps' = steps + 1
        /\ UNCHANGED <<learned, redis, synonyms_file, process, exchange, session>>

\* store_feedback: feedback_data = redis_client.get(feedback_key); json.loads
confirm_fetch(c) ==
    /\ callers[c].pc = "stored"
    /\ callers' =
           [callers EXCEPT ![c] =
               [pc |-> "fetched", query |-> @.query, tables |-> @.tables,
                feedback_list |-> IF redis["feedback"] = None THEN <<>>
                                  ELSE redis["feedback"][1]]]
    /\ op' = Stepped(c, "fetch")
    /\ steps' = steps + 1
    /\ UNCHANGED <<learned, redis, synonyms_file, durable, process, exchange, session>>

\* store_feedback: feedback_list.append(...); redis_client.set(...)
confirm_cache(c) ==
    /\ callers[c].pc = "fetched"
    /\ redis' = CacheWritten(redis, callers[c].feedback_list,
                             FeedbackEntry(callers[c].query, callers[c].tables, One))
    /\ callers' =
           [callers EXCEPT ![c] = [pc |-> "cached", query |-> @.query, tables |-> @.tables]]
    /\ op' = Stepped(c, "cache")
    /\ steps' = steps + 1
    /\ UNCHANGED <<learned, synonyms_file, durable, process, exchange, session>>

\* adjust_weights: the three loops over self.weights, then json.dumps(self.weights)
confirm_adjust(c) ==
    /\ callers[c].pc = "cached"
    /\ weights' = AdjustedWeights(weights, callers[c].tables, get_all_tables)
    /\ callers' =
           [callers EXCEPT ![c] =
               [pc |-> "adjusted", query |-> @.query, tables |-> @.tables,
                dumped |-> weights']]
    /\ op' = Stepped(c, "adjust")
    /\ steps' = steps + 1
    /\ UNCHANGED <<patterns, entity_mappings, synonyms, matches, redis, synonyms_file>>
    /\ UNCHANGED <<durable, process, exchange, session>>

\* _save_weights: redis_client.set(weights key, the serialised ledger)
confirm_save(c) ==
    /\ callers[c].pc = "adjusted"
    /\ redis' = SaveWeights(redis, callers[c].dumped)
    /\ callers' =
           [callers EXCEPT ![c] = [pc |-> "saved", query |-> @.query, tables |-> @.tables]]
    /\ op' = Stepped(c, "save")
    /\ steps' = steps + 1
    /\ UNCHANGED <<learned, synonyms_file, durable, process, exchange, session>>

\* update_name_matches and update_patterns, and the return of confirm_tables
confirm_learn(c) ==
    LET terms == QueryTerms(Lower(callers[c].query))
        valid == callers[c].tables
    IN  /\ callers[c].pc = "saved"
        /\ synonyms' = IF nlp THEN UpdatedSynonyms(synonyms, terms, valid) ELSE synonyms
        /\ matches' = IF nlp THEN UpdatedMatches(matches, terms, valid) ELSE matches
        /\ synonyms_file' = IF nlp THEN Some(synonyms') ELSE synonyms_file
        /\ patterns' = IF nlp THEN UpdatedPatterns(patterns, terms, valid, column_gaps) ELSE patterns
        /\ entity_mappings' =
               IF nlp THEN UpdatedEntityMappings(entity_mappings, terms, valid, column_gaps)
               ELSE entity_mappings
        /\ redis' =
               [redis EXCEPT
                   !["name_matches"] = Some(matches'),
                   !["patterns"] = IF nlp THEN Some(patterns') ELSE @,
                   !["entities"] = IF nlp THEN Some(entity_mappings') ELSE @]
        /\ callers' = [callers EXCEPT ![c] = [pc |-> "idle"]]
        /\ op' = Stepped(c, "learn")
        /\ steps' = steps + 1
        /\ UNCHANGED <<weights, durable, process, exchange, session>>

(***************************************************************************)
(* Query mode of the command line (DatabaseAnalyzerCLI._query_mode): the   *)
(* retry loop run for one validated query.                                 *)
(***************************************************************************)
\* max_retries = 3
MaxRetries == 3

\* the suggestion threshold of query mode: confidence >= 0.7
SuggestThreshold == <<7, 10>>

\* the texts the two preprocessing stages may hand to identify_tables: the
\* lowered query, or the lemmas of its content words joined by blanks
PreprocessedTexts(query) ==
    {Lower(query)} \cup
        (IF nlp THEN {JoinWith(QueryTerms(Lower(query)), " ")} ELSE {})

\* what process_query returns for what identify_tables did: an exception on
\* the way becomes ([], 0.0)
Returned(outcome) ==
    IF "raised" \in DOMAIN outcome THEN <<<<>>, Zero>>
    ELSE <<outcome.tables, outcome.confidence>>

\* the pairs (tables, confidence) DatabaseAnalyzer.process_query may return:
\* ([], 0.0) from a failed guard, or the outcome of identify_tables
ProcessQueryResults(query) ==
    {<<<<>>, Zero>>} \cup
        {Returned(Identified(weights, patterns, entity_mappings, synonyms, matches,
                             training_data, nlp, column_gaps, hash_seed, text)) :
            text \in PreprocessedTexts(query)}

\* the failed attempt is followed by another one on every attempt
RetriesAlways(attempt) == TRUE

\* if attempt < max_retries - 1: continue
Retries(attempt) == attempt < MaxRetries - 1

\* self.irrelevant_keywords
IrrelevantKeywords ==
    {"chitti", "emchestunnav", "bagunnava", "babu", "like", "you", "doing", "sonia",
     "kill", "love", "hate", "friend", "hello", "hi", "how are"}

\* relevant_keywords of _validate_query
RelevantKeywords ==
    {"product", "products", "stock", "stocks", "store", "stores", "customer",
     "customers", "order", "orders", "staff", "employee", "employees", "category",
     "categories", "brand", "brands", "sales", "inventory", "shop", "shops"}

\* DatabaseAnalyzerCLI._validate_query, for English queries with a noun or a verb
ValidateQuery(query) ==
    LET query_lower == Lower(query)
        tokens == Words(query_lower)
    IN  /\ Len(tokens) > 1
        /\ \A keyword \in IrrelevantKeywords : ~Contains(query_lower, keyword)
        /\ nlp => \E i \in 1..Len(tokens) : tokens[i] \in RelevantKeywords

\* a query passed _validate_query: the for loop over range(max_retries) starts
enter_query(query) ==
    /\ session.outcome # "retrying"
    /\ ValidateQuery(query)
    /\ session' = [outcome |-> "retrying", query |-> query, attempts |-> 0]
    /\ op' = [name |-> "enter_query", query |-> query]
    /\ steps' = steps + 1
    /\ UNCHANGED <<learned, redis, synonyms_file, durable, process, exchange, callers>>

\* one pass of the loop body: process_query, then the suggestion with
\* _handle_feedback or _manual_table_selection; `raised` is an exception at a
\* prompt of the handler, `answer` the reply to "Correct? (Y/N)" and
\* `selection` what _get_manual_tables returns
query_attempt(result, raised, answer, selection) ==
    LET query == session.query
        results == result[1]
        confidence == result[2]
        suggested == RLe(SuggestThreshold, confidence) /\ results # <<>>
        fed == IF suggested /\ answer = "y" THEN results ELSE selection
        valid == ValidTables(fed)
    IN  /\ session.outcome = "retrying"
        /\ session.attempts < MaxRetries
        /\ session' =
               [session EXCEPT
                   !.attempts = @ + 1,
                   !.outcome = IF raised
                               THEN IF Retries(session.attempts) THEN "retrying"
                                    ELSE "gave_up"
                               ELSE IF suggested THEN "feedback" ELSE "manual"]
        /\ op' = [name |-> "query_attempt", query |-> query, results |-> results,
                  confidence |-> confidence, raised |-> raised, answer |-> answer,
                  fed |-> IF raised THEN <<>> ELSE fed]
        /\ steps' = steps + 1
        /\ IF ~raised /\ valid # <<>> THEN Learn(query, valid)
           ELSE UNCHANGED <<learned, redis, synonyms_file, durable, process, exchange, callers>>

(***************************************************************************)
(* Specifications.                                                         *)
(***************************************************************************)
\* the longest run of adjust_weights calls (five penalties reach the floor)
MaxAdjust == 5
\* the longest run of feedback store operations
MaxStore == 4
\* the longest run of operations of the analyzer
MaxOps == 3

NoOp == [name |-> "init"]

\* the threads that may call confirm_tables on the one DatabaseAnalyzer
Callers == {1, 2}

\* no caller is inside confirm_tables
NoCallers == [c \in Callers |-> [pc |-> "idle"]]

\* query mode waits for a query
NoSession == [outcome |-> "waiting", query |-> "", attempts |-> 0]

\* A first connection over an empty cache and an empty feedback database, in
\* the first process (every later process draws its own seed, see Restart).
Init ==
    /\ training_data = TrainingCsv
    /\ nlp \in BOOLEAN
    /\ hash_seed = 1
    /\ redis = RedisAfterLoad([k \in RedisKeys |-> None])
    /\ synonyms_file = None
    /\ weights = LoadedWeights(redis)
    /\ patterns = LoadedPatterns(redis)
    /\ entity_mappings = LoadedEntityMappings(redis)
    /\ synonyms = LoadedSynonyms(synonyms_file)
    /\ matches = LoadedMatches(redis)
    /\ feedback_rows = <<>>
    /\ query_counts = EmptyMap
    /\ store_calls = <<>>
    /\ column_gaps = {}
    /\ export_file = None
    /\ exported = None
    /\ callers = NoCallers
    /\ session = NoSession
    /\ op = NoOp
    /\ steps = 0

\* The process is restarted: every component is constructed again over the
\* persisted artifacts, under a new string hash seed.
Restart ==
    /\ \E seed \in 1..NumSeeds : hash_seed' = seed
    /\ redis' = RedisAfterLoad(redis)
    /\ weights' = LoadedWeights(redis)
    /\ patterns' = LoadedPatterns(redis)
    /\ entity_mappings' = LoadedEntityMappings(redis)
    /\ synonyms' = LoadedSynonyms(synonyms_file)
    /\ matches' = LoadedMatches(redis)
    /\ steps' = steps + 1
    /\ UNCHANGED <<training_data, nlp, column_gaps, synonyms_file, durable, exchange, callers, session, op>>

\* The process is restarted after the cache server has lost its keys: every
\* component is constructed over an empty cache and the files.
ColdStart ==
    /\ \E seed \in 1..NumSeeds : hash_seed' = seed
    /\ redis' = RedisAfterLoad([k \in RedisKeys |-> None])
    /\ weights' = LoadedWeights([k \in RedisKeys |-> None])
    /\ patterns' = LoadedPatterns([k \in RedisKeys |-> None])
    /\ entity_mappings' = LoadedEntityMappings([k \in RedisKeys |-> None])
    /\ synonyms' = LoadedSynonyms(synonyms_file)
    /\ matches' = LoadedMatches([k \in RedisKeys |-> None])
    /\ op' = [name |-> "ColdStart"]
    /\ steps' = steps + 1
    /\ UNCHANGED <<training_data, nlp, column_gaps, synonyms_file, durable, exchange, callers, session>>

\* DatabaseAnalyzer.reload_all_configurations() on an open connection: the
\* catalog is read again from the database, which shows every table with its
\* columns, and every component is constructed again over the same cache and
\* files, in the same process.
reload_all_configurations ==
    /\ column_gaps' = {}
    /\ redis' = RedisAfterLoad(redis)
    /\ weights' = LoadedWeights(redis)
    /\ patterns' = LoadedPatterns(redis)
    /\ entity_mappings' = LoadedEntityMappings(redis)
    /\ synonyms' = LoadedSynonyms(synonyms_file)
    /\ matches' = LoadedMatches(redis)
    /\ op' = [name |-> "reload_all_configurations", ok |-> TRUE]
    /\ steps' = steps + 1
    /\ UNCHANGED <<training_data, nlp, hash_seed, synonyms_file, durable, exchange, callers, session>>

\* Tables a caller may name: catalog tables, one in another letter case, and
\* one identifier neither the catalog nor the ledger knows.
Customers == "sales.customers"
Orders == "sales.orders"
Untracked == "archive.orders"

\* queries answered by the training record, by learned synonyms, by the
\* patterns of six tables, and by nothing
Queries == {"show customer name list", "customer info", "sales orders", "weather forecast"}

LearnQueries == {"find customer info", "sales orders"}

\* what the suggestion prompt confirms
ConfirmLists == {<<Customers>>, <<Orders, Customers>>, <<"Sales.Customers">>}

\* what the manual selection "1,1" or a programmatic caller sends
FeedbackLists == {<<Customers, Customers>>, <<Untracked>>}

Next ==
    \/ /\ steps < MaxOps
       /\ \E q \in LearnQueries, tables \in ConfirmLists : confirm_tables(q, tables)
    \/ /\ steps < MaxOps
       /\ \E q \in LearnQueries, tables \in FeedbackLists : update_feedback(q, tables)
    \/ /\ steps < MaxOps
       /\ \E q \in Queries : identify_tables(q)
    \/ /\ steps < MaxOps
       /\ Restart

Spec == Init /\ [][Next]_vars

SelectedLists == {<<>>, <<Customers>>, <<Customers, Customers>>, <<Untracked>>}

KnownLists == {<<Customers, Orders>>, get_all_tables}

LedgerNext ==
    /\ steps < MaxAdjust
    /\ \E sel \in SelectedLists, known \in KnownLists : adjust_weights(sel, known)

\* the ledger and the feedback store are exercised with the NLP model loaded
InitOne == Init /\ nlp

SpecLedger == InitOne /\ [][LedgerNext]_vars

StoreQueries == {"q1", "Q1", "q2"}

StoreTables == {<<"a.b">>, <<"a.c">>}

StoreWeights == {One, <<1, 2>>}

StoreNext ==
    \/ /\ steps < MaxStore
       /\ \E q \in StoreQueries, tables \in StoreTables, w \in StoreWeights :
             store_feedback(q, tables, w)
    \/ /\ steps < MaxStore
       /\ \E q \in StoreQueries : get_query_count(q)

SpecStore == InitOne /\ [][StoreNext]_vars

\* the longest run of operations on the feedback store and its export file
MaxExchange == 4

\* two stored queries that differ by one word, in two spellings
ExchangeQueries == {"sales by city", "sales by city name"}

LookupQueries == {"Sales by city", "weather"}

\* a table list as confirmed, and the empty list a direct caller may store
ExchangeTables == {<<"sales.stores">>, <<>>}

ExchangeNext ==
    \/ /\ steps < MaxExchange
       /\ \E q \in ExchangeQueries, tables \in ExchangeTables : store_feedback(q, tables, One)
    \/ /\ steps < MaxExchange
       /\ export_feedback
    \/ /\ steps < MaxExchange
       /\ clear_feedback
    \/ /\ steps < MaxExchange
       /\ import_feedback
    \/ /\ steps < MaxExchange
       /\ \E q \in LookupQueries, cache_reachable \in BOOLEAN :
             get_similar_feedback(q, cache_reachable)

SpecExchange == InitOne /\ [][ExchangeNext]_vars

\* the longest run of stores, exports, imports and lookups
MaxLookup == 5

\* two stored queries with no word in common
StoredQueries == {"weather report", "sales by city"}

LookupNext ==
    \/ /\ steps < MaxLookup
       /\ \E q \in StoredQueries : store_feedback(q, <<"sales.stores">>, One)
    \/ /\ steps < MaxLookup
       /\ export_feedback
    \/ /\ steps < MaxLookup
       /\ import_feedback
    \/ /\ steps < MaxLookup
       /\ \E cache_reachable \in BOOLEAN : get_similar_feedback("Sales by city", cache_reachable)

SpecLookup == InitOne /\ [][LookupNext]_vars

\* the longest run of stores and lookups of one query
MaxLatest == 4

\* two different answers confirmed for one query, one after the other
LatestTables == {<<"sales.stores">>, <<"sales.orders">>}

LatestNext ==
    \/ /\ steps < MaxLatest
       /\ \E q \in StoredQueries, tables \in LatestTables : store_feedback(q, tables, One)
    \/ /\ steps < MaxLatest
       /\ \E cache_reachable \in BOOLEAN : get_similar_feedback("sales by city", cache_reachable)

SpecLatest == InitOne /\ [][LatestNext]_vars

\* the steps of two complete confirm_tables calls
MaxRace == 12

\* what the two callers confirm
RaceLists == {<<Customers>>, <<Orders>>}

RaceNext ==
    \/ /\ steps < MaxRace
       /\ \E c \in Callers, q \in LearnQueries, tables \in RaceLists : confirm_store(c, q, tables)
    \/ /\ steps < MaxRace
       /\ \E c \in Callers : confirm_fetch(c)
    \/ /\ steps < MaxRace
       /\ \E c \in Callers : confirm_cache(c)
    \/ /\ steps < MaxRace
       /\ \E c \in Callers : confirm_adjust(c)
    \/ /\ steps < MaxRace
       /\ \E c \in Callers : confirm_save(c)
    \/ /\ steps < MaxRace
       /\ \E c \in Callers : confirm_learn(c)

SpecRace == Init /\ [][RaceNext]_vars

\* the steps of two queries entered in query mode, each with three attempts
MaxRetry == 8

\* queries typed in query mode: two with a relevant keyword, one answered by
\* the patterns of one table and one by those of several, and one without
RetryQueries == {"customers by city", "sales orders", "weather forecast"}

\* what the manual selection prompt returns: nothing, or table 2 of the list
ManualSelections == {<<>>, <<Orders>>}

\* the loop body runs when its prompts are answered
Attempt ==
    \E result \in ProcessQueryResults(session.query), raised \in BOOLEAN,
       answer \in {"y", "n"}, selection \in ManualSelections :
        query_attempt(result, raised, answer, selection)

RetryNext ==
    \/ /\ steps + MaxRetries < MaxRetry
       /\ \E q \in RetryQueries : enter_query(q)
    \/ Attempt

\* a pass of the loop body has run to its end, seen on the loop's own state
PassCompletes ==
    /\ session.outcome = "retrying"
    /\ session.attempts < MaxRetries
    /\ \E outcome \in {"retrying", "feedback", "manual", "gave_up"} :
          session' = [session EXCEPT !.attempts = @ + 1, !.outcome = outcome]

\* the user answers every prompt or closes the input: a pass of the loop body
\* that has started is not suspended forever
SpecRetry == Init /\ [][RetryNext]_vars /\ WF_session(PassCompletes)

\* the longest run of operations on the synonym index
MaxNames == 3

\* confirmed queries: three lemmas, and one lemma in two word forms
NameQueries == {"find customer info", "customers customer orders"}

\* looked-up queries: lemmas shared with a confirmed query, a near synonym
\* after a shared lemma, and nothing known
MatchQueries == {"customer info", "info client", "weather forecast"}

NameLists == {<<Customers>>, <<Orders, Orders>>}

NamesNext ==
    \/ /\ steps < MaxNames
       /\ \E q \in NameQueries, tables \in ConfirmLists : confirm_tables(q, tables)
    \/ /\ steps < MaxNames
       /\ \E q \in NameQueries, tables \in NameLists : update_matches(q, tables)
    \/ /\ steps < MaxNames
       /\ \E q \in MatchQueries : get_matches(q)
    \/ /\ steps < MaxNames
       /\ ColdStart

SpecNames == Init /\ [][NamesNext]_vars

\* the longest run of operations on the pattern index
MaxPatterns == 3

Stocks == "production.stocks"

Stores == "sales.stores"

\* the catalog as the database shows it: every table with its columns, or the
\* columns of production.stocks hidden from the connecting user
GapChoices == {{}, {Stocks}}

\* A later connection: the catalog comes from the schema cache file and the
\* patterns and the intent map from the cache, where the first connection
\* over that catalog has put them.
InitFromCache ==
    /\ training_data = TrainingCsv
    /\ nlp \in BOOLEAN
    /\ hash_seed = 1
    /\ column_gaps \in GapChoices
    /\ redis = [RedisAfterLoad([k \in RedisKeys |-> None]) EXCEPT
                    !["patterns"] = Some(InitialPatternsOver(column_gaps)),
                    !["entities"] = Some(InitialEntityMappingsOver(column_gaps))]
    /\ synonyms_file = None
    /\ weights = LoadedWeights(redis)
    /\ patterns = LoadedPatterns(redis)
    /\ entity_mappings = LoadedEntityMappings(redis)
    /\ synonyms = LoadedSynonyms(synonyms_file)
    /\ matches = LoadedMatches(redis)
    /\ feedback_rows = <<>>
    /\ query_counts = EmptyMap
    /\ store_calls = <<>>
    /\ export_file = None
    /\ exported = None
    /\ callers = NoCallers
    /\ session = NoSession
    /\ op = NoOp
    /\ steps = 0

\* queries matched through a column of two tables with foreign keys, through
\* a schema name, through a place name, by nothing, through a two-token
\* pattern in the pattern's order, and through one in another order
PatternQueries ==
    {"quantity", "sales orders", "stores in texas", "weather forecast",
     "show customer name list", "Name of the customer"}

\* confirmed queries whose lemmas are and are not part of a column name
KeywordQueries == {"customer city list", "store state"}

KeywordLists == {<<Customers>>, <<Stores, Stocks>>}

PatternsNext ==
    \/ /\ steps < MaxPatterns
       /\ \E q \in PatternQueries, provider_fails \in BOOLEAN : match_pattern(q, provider_fails)
    \/ /\ steps < MaxPatterns
       /\ \E q \in KeywordQueries, tables \in KeywordLists : update_patterns(q, tables)

SpecPatterns == InitFromCache /\ [][PatternsNext]_vars

\* the longest run of confirmations, pattern updates and reloads
MaxReload == 3

ReloadNext ==
    \/ /\ steps < MaxReload
       /\ \E q \in LearnQueries, tables \in ConfirmLists : confirm_tables(q, tables)
    \/ /\ steps < MaxReload
       /\ \E q \in KeywordQueries, tables \in KeywordLists : update_patterns(q, tables)
    \/ /\ steps < MaxReload
       /\ reload_all_configurations

SpecReload == Init /\ [][ReloadNext]_vars

\* the longest run of constructions and pattern updates after the first bind
MaxBind == 2

\* which cache calls succeed: <<first get, set, second get>>
CacheCalls == BOOLEAN \X BOOLEAN \X BOOLEAN

\* A first connection over an empty cache whose calls may fail while the
\* pattern manager is constructed.
InitBind ==
    /\ training_data = TrainingCsv
    /\ nlp \in BOOLEAN
    /\ hash_seed = 1
    /\ column_gaps = {}
    /\ \E p \in CacheCalls, e \in CacheCalls :
          /\ patterns = LoadPatterns([k \in RedisKeys |-> None], p[1], p[2], p[3])
          /\ entity_mappings = LoadEntityMappings([k \in RedisKeys |-> None], e[1], e[2], e[3])
          /\ redis = [[k \in RedisKeys |-> None] EXCEPT
                         !["patterns"] = PatternsKeyAfterLoad([k \in RedisKeys |-> None], p[1], p[2]),
                         !["entities"] = EntitiesKeyAfterLoad([k \in RedisKeys |-> None], e[1], e[2]),
                         !["weights"] = Some([t \in CatalogTables |-> DefaultWeight])]
          /\ op = [name |-> "PatternManager", patterns_calls |-> p, entities_calls |-> e]
    /\ synonyms_file = None
    /\ weights = LoadedWeights(redis)
    /\ synonyms = LoadedSynonyms(synonyms_file)
    /\ matches = LoadedMatches(redis)
    /\ feedback_rows = <<>>
    /\ query_counts = EmptyMap
    /\ store_calls = <<>>
    /\ export_file = None
    /\ exported = None
    /\ callers = NoCallers
    /\ session = NoSession
    /\ steps = 0

BindNext ==
    \/ /\ steps < MaxBind
       /\ \E p \in CacheCalls, e \in CacheCalls : PatternManager(p, e)
    \/ /\ steps < MaxBind
       /\ \E q \in KeywordQueries, tables \in KeywordLists : update_patterns(q, tables)

SpecBind == InitBind /\ [][BindNext]_vars

(***************************************************************************)
(* Properties of the weight ledger, checked under SpecLedger.              *)
(***************************************************************************)

\* C1: starting from 1.0 for every catalog table, after any sequence of
\* adjust_weights calls every table the ledger tracks weighs at least 0.5.
WeightFloorKept == \A t \in DOMAIN weights : RLe(WeightFloor, weights[t])

\* a table has been penalised down onto the floor (0.85^n is never 0.5 itself)
WeightClampedAtFloor ==
    /\ op.name = "adjust_weights"
    /\ \E t \in DOMAIN weights : weights[t] = WeightFloor

\* the weight the rules of adjust(selected, known) give table t, the boost
\* counted `boosts` times
RuleWeight(w, t, selected, known, boosts) ==
    IF t \in Range(selected) THEN RAdd(WeightOf(w, t), RMul(<<boosts, 1>>, Boost))
    ELSE IF t \in Range(known) THEN RMax(WeightFloor, RMul(WeightOf(w, t), PenaltyFactor))
    ELSE RMax(WeightFloor, RMul(WeightOf(w, t), DecayFactor))

\* Scenario C: from defaults, adjust([sales.customers], [sales.customers, sales.orders])
ScenarioC ==
    (steps = 0 /\ op'.selected = <<Customers>> /\ op'.known = <<Customers, Orders>>)
        => weights'[Customers] = <<13, 10>> /\ weights'[Orders] = <<17, 20>>

\* C8 as stated: with selected a subset of known, every selected table gets
\* weight + 0.3, every other known table max(0.5, weight * 0.85), every tracked
\* table absent from known max(0.5, weight * 0.95), an untracked table starting
\* from 1.0; Scenario C gives 1.3 and 0.85.
OneRulePerTable ==
    [][(op'.name = "adjust_weights" /\ Range(op'.selected) \subseteq Range(op'.known)) =>
          /\ DOMAIN weights' = DOMAIN weights \cup Range(op'.known)
          /\ \A t \in DOMAIN weights' :
                weights'[t] = RuleWeight(weights, t, op'.selected, op'.known, 1)
          /\ ScenarioC]_vars

\* C8 amended: as above, but a selected table gains 0.3 for every time it
\* occurs in the selected list.
OneRulePerOccurrence ==
    [][(op'.name = "adjust_weights" /\ Range(op'.selected) \subseteq Range(op'.known)) =>
          /\ DOMAIN weights' = DOMAIN weights \cup Range(op'.known)
          /\ \A t \in DOMAIN weights' :
                weights'[t] = RuleWeight(weights, t, op'.selected, op'.known,
                                         Count(op'.selected, t))
          /\ ScenarioC]_vars

\* a table selected twice in the first call weighs 1.6, the others of the
\* catalog view 0.85
SelectedTwice ==
    /\ steps = 1
    /\ op.name = "adjust_weights"
    /\ op.selected = <<Customers, Customers>>
    /\ op.known = get_all_tables
    /\ weights[Customers] = <<8, 5>>
    /\ weights[Orders] = <<17, 20>>

(***************************************************************************)
(* Properties of the feedback store, checked under SpecStore.              *)
(***************************************************************************)
\* the positions of the store_feedback calls made with exactly this query text
CallsFor(query) == {i \in 1..Len(store_calls) : store_calls[i].query = query}

\* the positions of the durable feedback rows with exactly this query text
RowsFor(query) == {i \in 1..Len(feedback_rows) : feedback_rows[i].query = query}

\* C9: the usage count of a query text is the number of store_feedback calls
\* made with exactly that text, whatever was stored for other texts, and
\* get_query_count returns it.
UsageCountIsCallCount ==
    /\ \A q \in StoreQueries : QueryCount(query_counts, q) = Cardinality(CallsFor(q))
    /\ op.name = "get_query_count" => op.count = Cardinality(CallsFor(op.query))

\* two calls for "q1" and one for "Q1": get_query_count("q1") has returned 2
CountedTwice ==
    /\ op.name = "get_query_count"
    /\ op.query = "q1"
    /\ op.count = 2
    /\ QueryCount(query_counts, "Q1") = 1

\* C10: the durable store holds at most one feedback row per exact query
\* text, and that row carries the tables and weight of the latest
\* store_feedback call for the text.
LastWriteWins ==
    \A q \in StoreQueries :
        /\ Cardinality(RowsFor(q)) <= 1
        /\ CallsFor(q) # {} =>
              \E i \in RowsFor(q) :
                  feedback_rows[i] =
                      store_calls[CHOOSE c \in CallsFor(q) : \A d \in CallsFor(q) : d <= c]

(***************************************************************************)
(* Properties of identify_tables, checked under Spec.  op holds the call's *)
(* result together with the intermediate values the call computed.         *)
(***************************************************************************)
Identifies == op.name = "identify_tables"

\* max(pattern_confidence, name_confidence, feedback_confidence)
StrongestSignal ==
    RMax(op.pattern_confidence, RMax(op.name_confidence, op.feedback_confidence))

\* C2: for every query and every reachable state of the learned data, the
\* confidence identify_tables returns lies between 0.0 and 1.0, also when a
\* table's synonym score has accumulated several 0.9 hits.
ConfidenceInUnitInterval ==
    Identifies => RLe(Zero, op.confidence) /\ RLe(op.confidence, One)

\* C3: the confidence identify_tables returns never exceeds the strongest of
\* the pattern, name and feedback confidences, whatever the weights have grown to.
WeightOnlyDampens == Identifies => RLe(op.confidence, StrongestSignal)

\* the only table of the working set weighs more than 1.0 and the confidence
\* is the strongest signal itself
HeavyTableNotAmplified ==
    /\ Identifies
    /\ op.matched_tables = {Customers}
    /\ RLt(One, WeightOf(weights, Customers))
    /\ op.confidence = StrongestSignal

\* pattern_tables, name_tables and feedback_tables together
SignalTables == op.pattern_tables \cup op.name_tables \cup op.feedback_tables

\* C4: identify_tables returns (empty list, 0.0) exactly when no signal names
\* a table, and a non-empty list otherwise.
EmptyResultIffNoSignal ==
    Identifies =>
        /\ op.name_tables = {t \in DOMAIN op.name_matches :
                                RLe(NameThreshold, op.name_matches[t])}
        /\ (op.tables = <<>> /\ op.confidence = Zero) <=> (SignalTables = {})
        /\ SignalTables # {} => op.tables # <<>>

\* after a confirmation, a query that no pattern and no training record answers
\* is answered by the synonym index alone
NamesAloneAnswer ==
    /\ Identifies
    /\ op.pattern_tables = {} /\ op.feedback_tables = {}
    /\ op.name_tables # {}
    /\ op.tables # <<>>

\* C5: the returned list holds at most 5 distinct tables of the working set,
\* in non-increasing weight (a missing weight counting as 1.0), and no table
\* of the working set left out weighs more than a returned one.
RankedByWeight ==
    Identifies =>
        /\ Len(op.tables) <= TopK
        /\ NoDup(op.tables)
        /\ Range(op.tables) \subseteq op.matched_tables
        /\ \A i, j \in 1..Len(op.tables) :
              i < j => RLe(WeightOf(weights, op.tables[j]), WeightOf(weights, op.tables[i]))
        /\ \A out \in op.matched_tables \ Range(op.tables) :
              \A i \in 1..Len(op.tables) :
                  RLe(WeightOf(weights, out), WeightOf(weights, op.tables[i]))

\* the cut happens over unequal weights: six tables matched, the first
\* returned one weighs more than the last, and one is left out
CutOverUnequalWeights ==
    /\ Identifies
    /\ Cardinality(op.matched_tables) > TopK
    /\ Len(op.tables) = TopK
    /\ RLt(WeightOf(weights, op.tables[TopK]), WeightOf(weights, op.tables[1]))

\* C6: for fixed weights and a fixed working set, two identify_tables calls
\* return the same tables in the same order, including which tables survive
\* the cut when several weigh the same.
RankingRepeatable ==
    [][(/\ Identifies
        /\ op'.name = "identify_tables"
        /\ op'.matched_tables = op.matched_tables
        /\ weights' = weights) => op'.tables = op.tables]_vars

\* C7: an identify_tables call leaves the weights, the patterns, the intent
\* map, the synonyms and the match graph as they were, in memory and in the
\* cache and the synonyms file; they change only in confirm_tables and
\* update_feedback.
IdentifyReadsOnly ==
    [][/\ (op'.name = "identify_tables" /\ identify_tables(op'.query)) =>
              UNCHANGED <<learned, redis, synonyms_file>>
       /\ (learned' # learned \/ redis' # redis \/ synonyms_file' # synonyms_file) =>
              op'.name \in {"confirm_tables", "update_feedback"}]_vars

\* a call made after a confirmation has changed the learned data
IdentifiedAfterLearning ==
    /\ Identifies
    /\ op.tables # <<>>
    /\ synonyms # EmptyMap
    /\ \E t \in DOMAIN weights : weights[t] # DefaultWeight

(***************************************************************************)
(* Properties of the feedback export and lookup, checked under             *)
(* SpecExchange.                                                           *)
(***************************************************************************)
\* C11: exporting a store filled by store_feedback calls and importing the
\* document into an empty store gives a store with the same feedback rows
\* (query, tables, weight) and the same usage counts as the exported one,
\* rows with an empty table list and repeated rows included.
RoundTripIdentity ==
    [][(/\ op'.name = "import_feedback"
        /\ export_file # None
        /\ feedback_rows = <<>> /\ query_counts = EmptyMap) =>
           /\ feedback_rows' = exported[1].rows
           /\ query_counts' = exported[1].counts]_vars

\* the cached feedback list, empty when the cache holds none
CachedEntries == IF redis["feedback"] = None THEN <<>> ELSE redis["feedback"][1]

\* the similarity of the query of the lookup that is being made to an entry's query
LookupSimilarity(entry) == DocSimilarity(Lower(op'.query), Lower(entry.query))

\* whether the lookup that is being made returns a best entry of the pool:
\* one above 0.8 that no entry of the pool exceeds, or nothing when the pool
\* has no entry above 0.8
ReturnsBestOf(pool) ==
    IF \E i \in 1..Len(pool) : RLt(FeedbackThreshold, LookupSimilarity(pool[i]))
    THEN /\ op'.result # None
         /\ op'.result[1] \in Range(pool)
         /\ RLt(FeedbackThreshold, LookupSimilarity(op'.result[1]))
         /\ \A i \in 1..Len(pool) :
               RLe(LookupSimilarity(pool[i]), LookupSimilarity(op'.result[1]))
    ELSE op'.result = None

\* C18: get_similar_feedback(q) returns the cached entry most similar to q
\* when a cached entry has similarity above 0.8; otherwise (the cache empty,
\* unavailable or without such an entry) the most similar durable row above
\* 0.8; otherwise nothing.  It never returns an entry at or below 0.8.
BestFeedbackReturned ==
    [][op'.name = "get_similar_feedback" =>
          IF /\ op'.cache_reachable
             /\ \E i \in 1..Len(CachedEntries) :
                   RLt(FeedbackThreshold, LookupSimilarity(CachedEntries[i]))
          THEN ReturnsBestOf(CachedEntries)
          ELSE ReturnsBestOf(SelectFeedback(feedback_rows))]_vars

\* the query texts a document names, in its rows or in its counts
DocumentQueries(document) ==
    {document.feedback[i].query : i \in 1..Len(document.feedback)}
        \cup DOMAIN document.query_counts

\* C19: import_feedback leaves every durable feedback row and usage count
\* whose query text the document does not name as it was, puts every row of
\* the document into the durable store, and makes the cache mirror the list
\* of the document's feedback rows.
ImportUpserts ==
    [][(op'.name = "import_feedback" /\ export_file # None) =>
          LET document == export_file[1]
              Untouched(r) == r.query \notin DocumentQueries(document)
          IN  /\ SelectSeq(feedback_rows', Untouched) = SelectSeq(feedback_rows, Untouched)
              /\ \A q \in DOMAIN query_counts \ DocumentQueries(document) :
                    q \in DOMAIN query_counts' /\ query_counts'[q] = query_counts[q]
              /\ \A i \in 1..Len(document.feedback) :
                    document.feedback[i] \in Range(feedback_rows')
              /\ redis'["feedback"] = Some(document.feedback)]_vars

(***************************************************************************)
(* Properties of the synonym index, checked under SpecNames.               *)
(***************************************************************************)
\* the lemmas update_matches and get_matches take from a query
LemmaSet(query) == Range(QueryTerms(Lower(query)))

\* C12: update_matches(q, T) applied to the state an update_matches(q, T)
\* call has left changes neither the synonym lists nor the match graph, for
\* every q, T and prior state (without the NLP model the call changes
\* nothing in the first place).
UpdateMatchesIdempotent ==
    (op.name = "update_matches" /\ nlp) =>
        /\ UpdatedSynonyms(synonyms, QueryTerms(Lower(op.query)), op.tables) = synonyms
        /\ UpdatedMatches(matches, QueryTerms(Lower(op.query)), op.tables) = matches

\* a call has added lemmas to a table that already had synonyms from the
\* other query
UpdatedOverEarlierSynonyms ==
    /\ op.name = "update_matches"
    /\ op.query = "customers customer orders"
    /\ op.tables = <<Customers>>
    /\ Customers \in DOMAIN synonyms
    /\ synonyms[Customers] = <<"find", "customer", "info", "order">>
    /\ matches["customer"][Customers] = LiteralScore

\* C13: with the NLP model loaded, once confirm_tables(q, T) has been made
\* with valid tables T, every later get_matches(q2) whose lemmas (stop words
\* and non-alphabetic tokens left out) include a lemma of q returns every
\* table of T with a score of at least 0.9, whatever was confirmed since.
LearningTakesEffect ==
    (op.name = "get_matches" /\ nlp) =>
        \A i \in 1..Len(store_calls) :
            LemmaSet(store_calls[i].query) \cap LemmaSet(op.query) # {} =>
                \A t \in Range(store_calls[i].tables) :
                    /\ t \in DOMAIN op.matches
                    /\ RLe(<<9, 10>>, op.matches[t])

\* after one confirmation, a query that shares "info" with it and whose last
\* lemma is only similar to a synonym still scores the confirmed table
LearnedThenMatched ==
    /\ op.name = "get_matches" /\ nlp
    /\ op.query = "info client"
    /\ Len(store_calls) = 1
    /\ store_calls[1].query = "find customer info"
    /\ store_calls[1].tables = <<Customers>>
    /\ RLe(<<9, 10>>, op.matches[Customers])

\* C17: after any sequence of update_matches calls from an empty synonym
\* index, no table's synonym list holds the same lemma twice, also when the
\* query holds a lemma several times or the table list names a table twice.
SynonymsDuplicateFree == \A t \in DOMAIN synonyms : NoDup(synonyms[t])

\* a query with the lemma "customer" twice was filed for a table named twice
RepeatedLemmaFiledOnce ==
    /\ op.name = "update_matches"
    /\ op.query = "customers customer orders"
    /\ op.tables = <<Orders, Orders>>
    /\ Orders \in DOMAIN synonyms
    /\ synonyms[Orders] = <<"customer", "order">>

(***************************************************************************)
(* Properties of the pattern index, checked under SpecPatterns.            *)
(***************************************************************************)
\* the tables the foreign keys of table t reference
ReferencedBy(t) == IF t \in CatalogTables THEN Range(ForeignKeys[t]) ELSE {}

\* C14: match_pattern returns the tables matched by the pattern, entity and
\* intent rules together with the tables their foreign keys reference
\* directly, and nothing further: with foreign keys A -> B -> C and only A
\* matched by the rules, B is returned and C is not.
SingleHopClosure ==
    (op.name = "match_pattern" /\ ~op.fallback) =>
        /\ op.rule_tables \subseteq op.tables
        /\ \A a \in op.rule_tables : ReferencedBy(a) \subseteq op.tables
        /\ \A t \in op.tables \ op.rule_tables :
              \E a \in op.rule_tables : t \in ReferencedBy(a)

\* "quantity" matches sales.order_items by rule; sales.orders comes in through
\* its foreign key, sales.customers, which only sales.orders references, does not
SecondHopLeftOut ==
    /\ op.name = "match_pattern" /\ ~op.fallback
    /\ op.query = "quantity"
    /\ "sales.order_items" \in op.rule_tables
    /\ Orders \in op.tables \ op.rule_tables
    /\ Customers \in ReferencedBy(Orders)
    /\ Customers \notin op.tables

\* the tables whose table name, schema name or underscore-normalised column
\* name is part of the lower-cased query
LiteralTables(query, gaps) ==
    {t \in CatalogTables :
        \/ Contains(Lower(query), Lower(NameOf(t)))
        \/ Contains(Lower(query), Lower(SchemaOf(t)))
        \/ /\ t \notin gaps
           /\ \E i \in 1..Len(Columns[t]) :
                 Contains(Lower(query), Unscore(Lower(Columns[t][i].name)))}

\* C15: when the NLP model is unavailable or raises during matching,
\* match_pattern does not raise and returns exactly the tables matched
\* literally, with no entity, intent or foreign-key widening, also over a
\* catalog with a table that has no column entry.
FallbackIsLiteralMatch ==
    (op.name = "match_pattern" /\ op.fallback) =>
        /\ ~op.raised
        /\ op.tables = LiteralTables(op.query, column_gaps)

\* C16: no table's pattern list holds two patterns with the same token
\* sequence, after the catalog is bound and after any sequence of
\* update_patterns calls.
PatternsDuplicateFree == \A t \in DOMAIN patterns : NoDup(patterns[t])

(***************************************************************************)
(* Properties of the catalog reload, checked under SpecReload.             *)
(***************************************************************************)
\* C20: after reload_all_configurations the pattern index and the intent map
\* are those a fresh build from the reloaded catalog produces, and the weight
\* of every catalog table is 1.0, whatever earlier confirmations and pattern
\* updates have learned and left in the cache.
ReloadResetsDerivedState ==
    op.name = "reload_all_configurations" =>
        /\ patterns = InitialPatterns
        /\ entity_mappings = InitialEntityMappings
        /\ \A t \in CatalogTables : weights[t] = One

(***************************************************************************)
(* Properties of the confirmation flow, checked under Spec.                *)
(***************************************************************************)
\* C21: every table identifier that confirm_tables or update_feedback writes
\* into the feedback store, the weight ledger, the synonym index or the
\* pattern index is a schema.table identifier of the catalog in the catalog's
\* letter case, however the caller spelled a table that passes validation.
CanonicalIdentifiers ==
    /\ \A i \in 1..Len(feedback_rows) : Range(feedback_rows[i].tables) \subseteq CatalogTables
    /\ DOMAIN weights \subseteq CatalogTables
    /\ DOMAIN synonyms \subseteq CatalogTables
    /\ \A lemma \in DOMAIN matches : DOMAIN matches[lemma] \subseteq CatalogTables
    /\ DOMAIN patterns \subseteq CatalogTables

(***************************************************************************)
(* Properties of the pattern manager's construction, checked under         *)
(* SpecBind.                                                               *)
(***************************************************************************)
\* C22: whichever cache reads and writes fail, and over an empty cache, the
\* constructed pattern index holds the catalog-derived patterns of every
\* catalog table and the intent map holds at least the default keywords of
\* all six intents.
BindSurvivesCacheFailure ==
    op.name = "PatternManager" =>
        /\ CatalogTables \subseteq DOMAIN patterns
        /\ \A t \in CatalogTables : Range(InitialPatterns[t]) \subseteq Range(patterns[t])
        /\ Intents \subseteq DOMAIN entity_mappings
        /\ \A i \in Intents : DefaultEntityMappings[i] \subseteq entity_mappings[i]

(***************************************************************************)
(* The fused confidence, checked under Spec.                               *)
(***************************************************************************)
RECURSIVE WeightSum(_)
\* the sum of the ledger's weights of the tables of S, 1.0 for an untracked one
WeightSum(S) ==
    IF S = {} THEN Zero
    ELSE LET t == CHOOSE x \in S : TRUE
         IN  RAdd(WeightOf(weights, t), WeightSum(S \ {t}))

\* x and y are the same number
SameNumber(x, y) == Norm(x[1], x[2]) = Norm(y[1], y[2])

\* C23: with a non-empty working set the returned confidence is the largest
\* of the pattern confidence (0.9 iff pattern_tables is non-empty), the name
\* confidence (the largest score get_matches returned, whether or not it
\* reaches 0.8) and the feedback confidence (0.95 iff feedback_tables is
\* non-empty), times min(1.0, mean weight of the whole working set).
FusedConfidence ==
    (Identifies /\ SignalTables # {}) =>
        /\ op.pattern_confidence = IF op.pattern_tables # {} THEN <<9, 10>> ELSE Zero
        /\ op.feedback_confidence = IF op.feedback_tables # {} THEN <<19, 20>> ELSE Zero
        /\ \A t \in DOMAIN op.name_matches : RLe(op.name_matches[t], op.name_confidence)
        /\ IF DOMAIN op.name_matches = {} THEN op.name_confidence = Zero
           ELSE \E t \in DOMAIN op.name_matches : op.name_matches[t] = op.name_confidence
        /\ SameNumber(op.confidence,
                      RMul(StrongestSignal,
                           RMin(One, RDivInt(WeightSum(SignalTables),
                                             Cardinality(SignalTables)))))

\* more than five tables in the working set, of unequal weights with a mean
\* below 1.0, and a name score among the signals
DampedOverLongWorkingSet ==
    /\ Identifies
    /\ Cardinality(SignalTables) > TopK
    /\ \E a, b \in SignalTables : WeightOf(weights, a) # WeightOf(weights, b)
    /\ op.name_confidence # Zero
    /\ RLt(op.confidence, StrongestSignal)

(***************************************************************************)
(* The pattern rule of match_pattern, checked under SpecPatterns.          *)
(***************************************************************************)
\* the words of the lower-cased query that are alphabetic and no stop words
ContentWords(query) ==
    {w \in Range(Words(Lower(query))) : IsAlpha(w) /\ w \notin StopWords}

\* the pattern's tokens joined by single blanks are part of the lower-cased query
PhraseIn(pattern, query) == Contains(Lower(query), JoinWith(pattern, " "))

\* C24: with the NLP model available a table is matched by the pattern rule
\* exactly when the space-joined phrase of one of its patterns is a substring
\* of the lower-cased query or every token of the pattern is among the
\* query's non-stop-word alphabetic tokens, in any order; the pattern
\* "customer name" fires on "show customer name list".
PatternMatchRule ==
    (op.name = "match_pattern" /\ ~op.fallback) =>
        /\ \A t \in DOMAIN patterns :
              t \in op.pattern_rule_tables <=>
                  \E i \in 1..Len(patterns[t]) :
                      \/ PhraseIn(patterns[t][i], op.query)
                      \/ Range(patterns[t][i]) \subseteq ContentWords(op.query)
        /\ op.pattern_rule_tables \subseteq DOMAIN patterns
        /\ op.query = "show customer name list" =>
              \A t \in DOMAIN patterns :
                  <<"customer", "name">> \in Range(patterns[t]) => t \in op.pattern_rule_tables

\* "Name of the customer" holds the tokens of "customer name" in another
\* order and around stop words; no pattern phrase of sales.customers is part of it
MatchedByTokensOnly ==
    /\ op.name = "match_pattern" /\ ~op.fallback
    /\ op.query = "Name of the customer"
    /\ Customers \in op.pattern_rule_tables
    /\ \A i \in 1..Len(patterns[Customers]) : ~PhraseIn(patterns[Customers][i], op.query)

(***************************************************************************)
(* The scores of get_matches, checked under SpecNames.                     *)
(***************************************************************************)
\* what the synonym adds to the table's sum: 0.9 when it is a lemma of the
\* query, else the memoized score of (synonym, table), else nothing
HitScore(synonym, table, query) ==
    IF synonym \in LemmaSet(query) THEN <<9, 10>>
    ELSE IF synonym \in DOMAIN matches /\ table \in DOMAIN matches[synonym]
         THEN matches[synonym][table]
         ELSE Zero

\* S: the literal and memoized hits of the table's synonyms, added up
HitSum(table, query) ==
    RSum([i \in 1..Len(synonyms[table]) |-> HitScore(synonyms[table][i], table, query)])

\* the similarities above 0.8 between a lemma of the query and a synonym of the table
CloseSimilarities(table, query) ==
    {Similarity(term, synonym) : term \in LemmaSet(query), synonym \in Range(synonyms[table])}
        \ {x \in {Similarity(term, synonym) :
                     term \in LemmaSet(query), synonym \in Range(synonyms[table])} :
              RLe(x, <<4, 5>>)}

\* M: the largest of them, 0 when there is none
LargestSimilarity(table, query) ==
    IF CloseSimilarities(table, query) = {} THEN Zero
    ELSE CHOOSE m \in CloseSimilarities(table, query) :
             \A x \in CloseSimilarities(table, query) : RLe(x, m)

\* C25: get_matches returns for each table max(S, M), S the sum over the
\* table's synonyms of 0.9 for a synonym that is a query lemma and of the
\* memoized score of (synonym, table) otherwise, M the largest similarity
\* above 0.8 between a query lemma and a synonym of the table; a table with
\* neither a literal, a memoized nor a similarity hit is not in the result.
GetMatchesScores ==
    (op.name = "get_matches" /\ nlp) =>
        /\ DOMAIN op.matches \subseteq DOMAIN synonyms
        /\ \A t \in DOMAIN synonyms :
              /\ t \in DOMAIN op.matches <=>
                     \/ HitSum(t, op.query) # Zero
                     \/ CloseSimilarities(t, op.query) # {}
              /\ t \in DOMAIN op.matches =>
                     SameNumber(op.matches[t],
                                RMax(HitSum(t, op.query), LargestSimilarity(t, op.query)))

\* over a match graph lost with the cache, two synonyms of sales.customers
\* are lemmas of the query: the score is 1.8, above the similarity 1.0 of each
LiteralHitsAddUp ==
    /\ op.name = "get_matches" /\ nlp
    /\ op.query = "customer info"
    /\ matches = EmptyMap
    /\ Customers \in DOMAIN op.matches
    /\ op.matches[Customers] = <<9, 5>>
    /\ LargestSimilarity(Customers, op.query) = One

(***************************************************************************)
(* The cache mirror under lookups, checked under SpecLookup.               *)
(***************************************************************************)
\* a cached entry is more than 0.8 similar to the query of the lookup being made
CacheHit == \E i \in 1..Len(CachedEntries) : RLt(<<4, 5>>, LookupSimilarity(CachedEntries[i]))

\* a durable row is more than 0.8 similar to the query of the lookup being made
StoreHit ==
    \E i \in 1..Len(feedback_rows) : RLt(<<4, 5>>, LookupSimilarity(feedback_rows[i]))

\* C26: get_similar_feedback changes the cached feedback list only when the
\* scan of the cache finds no entry above 0.8 and the scan of the durable
\* store finds one; the cache then holds that one entry and nothing else.
\* On a cache hit, and when neither scan finds an entry, the cache and the
\* durable store are as before.
LazySingleEntryWarm ==
    [][op'.name = "get_similar_feedback" =>
          /\ feedback_rows' = feedback_rows
          /\ query_counts' = query_counts
          /\ IF nlp /\ op'.cache_reachable /\ ~CacheHit /\ StoreHit
             THEN /\ op'.result # None
                  /\ redis' = [redis EXCEPT !["feedback"] = <<(<<op'.result[1]>>)>>]
             ELSE redis' = redis]_vars

\* the cache rebuilt by an import from a document that holds only
\* "weather report" has been replaced by the one durable row found for the lookup
WarmedOverOtherEntries ==
    /\ op.name = "get_similar_feedback"
    /\ op.result # None
    /\ op.result[1].query = "sales by city"
    /\ export_file # None
    /\ \A i \in 1..Len(export_file[1].feedback) :
          export_file[1].feedback[i].query = "weather report"
    /\ export_file[1].feedback # <<>>
    /\ redis["feedback"] = <<(<<op.result[1]>>)>>
    /\ \E i \in 1..Len(feedback_rows) : feedback_rows[i].query = "weather report"

(***************************************************************************)
(* Properties of the ledger's rules for a selected table, checked under    *)
(* SpecLedger.                                                             *)
(***************************************************************************)
\* C29: a table selected (once) in an adjust_weights call weighs exactly 0.3
\* more after the call than before it, 1.3 when the ledger did not track it,
\* also when the table is not listed in known: the decay of tracked tables
\* absent from known is not applied to it in the same call.
SelectedGainsBoostOnly ==
    [][op'.name = "adjust_weights" =>
          \A t \in Range(op'.selected) :
              Count(op'.selected, t) = 1 =>
                  SameNumber(weights'[t], RAdd(WeightOf(weights, t), Boost))]_vars

\* the untracked table selected outside known in the first call: 1.3 * 0.95
BoostedThenDecayed ==
    /\ steps = 1
    /\ op.name = "adjust_weights"
    /\ op.selected = <<Untracked>>
    /\ weights[Untracked] = <<247, 200>>

(***************************************************************************)
(* Reading back the latest answer stored for a query, checked under        *)
(* SpecLatest.                                                             *)
(***************************************************************************)
\* the positions of the store_feedback calls made for the query
StoredAt(query) == {i \in 1..Len(store_calls) : store_calls[i].query = query}

\* the entry of the latest store_feedback call made for the query
LatestStored(query) ==
    store_calls[CHOOSE i \in StoredAt(query) : \A j \in StoredAt(query) : j <= i]

\* store_feedback(q, T1) was followed by store_feedback(q, T2), T1 # T2, and
\* no later call stored q
Restored(query) ==
    \E i \in StoredAt(query) : store_calls[i].tables # LatestStored(query).tables

\* C30: after store_feedback(q, T1) followed by store_feedback(q, T2) with
\* T1 # T2, and whatever stores and lookups come between and after them,
\* get_similar_feedback(q) returns an entry for q whose tables are T2, the
\* latest stored for q, never the entry with T1.
ReadsLatestWrite ==
    [][(/\ op'.name = "get_similar_feedback"
        /\ op'.cache_reachable
        /\ Restored(op'.query)) =>
          /\ op'.result # None
          /\ op'.result[1].query = op'.query
          /\ op'.result[1].tables = LatestStored(op'.query).tables]_vars

\* the lookup has answered with the tables of the first of two stores
StaleEntryReturned ==
    /\ op.name = "get_similar_feedback"
    /\ op.result # None
    /\ Len(store_calls) = 2
    /\ op.result[1].tables = store_calls[1].tables
    /\ op.result[1].tables # store_calls[2].tables
    /\ store_calls[1].query = store_calls[2].query

(***************************************************************************)
(* Concurrent confirm_tables calls, checked under SpecRace.                *)
(***************************************************************************)
\* C27: writes are not isolated.  The cache mirror a caller writes is the
\* list that caller read earlier plus its own entry, and the weights artifact
\* it persists is the ledger as that caller serialised it, whatever the other
\* caller has written in between; so there are interleavings after which the
\* mirror holds the entry of one of two calls only and the persisted weights
\* the adjustment of one caller only.
WritesNotIsolated ==
    [][/\ (op'.name = "confirm_tables" /\ op'.step = "cache") =>
              redis'["feedback"] =
                  Some(Append(callers[op'.caller].feedback_list,
                              FeedbackEntry(callers[op'.caller].query,
                                            callers[op'.caller].tables, One)))
       /\ (op'.name = "confirm_tables" /\ op'.step = "save") =>
              redis'["weights"] = Some(callers[op'.caller].dumped)]_vars

\* two calls have run to their end, both are in the durable store, and the
\* mirror holds one entry and the persisted ledger one caller's adjustment
OneCallLost ==
    /\ \A c \in Callers : callers[c].pc = "idle"
    /\ Len(store_calls) = 2
    /\ Len(feedback_rows) = 2
    /\ store_calls[1].tables # store_calls[2].tables
    /\ Len(redis["feedback"][1]) = 1
    /\ \E i \in 1..2 :
          redis["weights"][1] =
              AdjustedWeights([t \in CatalogTables |-> DefaultWeight],
                              store_calls[i].tables, get_all_tables)
    /\ weights # redis["weights"][1]

(***************************************************************************)
(* The retry loop of query mode, checked under SpecRetry.                  *)
(***************************************************************************)
\* the ways the loop run for one query ends
LoopEnds == {"feedback", "manual", "gave_up"}

====
